---- MODULE Spec2Model ----
(***************************************************************************)
(* State-machine model of the dravis-flow dictation session: the global    *)
(* hotkey handler, the start / stop / cancel control tasks, the audio      *)
(* recorder and the transcription pipeline, plus the pure gesture          *)
(* resolver.                                                               *)
(*                                                                         *)
(* Atomicity follows the source: every `with_state` closure (one           *)
(* acquisition of the InnerState mutex) is one step, every status event    *)
(* emitted outside the lock is one step, and every awaited external stage  *)
(* (transcription, restructuring, injection) is one step.                  *)
(***************************************************************************)
EXTENDS Integers, Sequences, FiniteSets, Bags, TLC

\* ------------------------------------------------------------------------
\* Program constants
\* ------------------------------------------------------------------------
HOLD_THRESHOLD_MS == 300

MIN_TRANSCRIBE_SAMPLES == 16000

WINDOW == 480

TAIL_PADDING == 8000

TARGET_RATE == 16000

\* trim_silence is called with threshold 0.01 = 1 / THRESHOLD_INV
THRESHOLD_INV == 100

\* capture_chunk emits a level at most once per Duration::from_millis(50)
LEVEL_INTERVAL_MS == 50

\* ------------------------------------------------------------------------
\* Bounds of the model
\* ------------------------------------------------------------------------
\* number of control tasks that may be in flight at once
MaxTasks == 2

\* number of device chunks the sample buffer may hold
MaxRuns == 1

\* granularity of the monotonic clock, in milliseconds
TickMs == 300

\* the elapsed time of an Instant saturates here (>= HOLD_THRESHOLD_MS)
MaxHeldMs == 300

\* ------------------------------------------------------------------------
\* Value domains
\* ------------------------------------------------------------------------
Idle == "Idle"

Recording == "Recording"

Processing == "Processing"

Error == "Error"

AppStatus == {Idle, Recording, Processing, Error}

\* Option<T>: None is the empty sequence, Some(x) the one-element sequence
None == <<>>

Some(x) == <<x>>

\* Input sample rates the default device may report
DeviceRates == {16000}

\* Chunks the device callback may deliver: n mono samples of amplitude v
\* (v = 0 silence, v = 1 full scale).  The tag is a ghost field:
\* "live" = captured in the current session.
DeviceChunks ==
    { [n |-> 480,   v |-> 0, tag |-> "live"],
      [n |-> 480,   v |-> 1, tag |-> "live"],
      [n |-> 16000, v |-> 1, tag |-> "live"] }

Min(a, b) == IF a < b THEN a ELSE b

Max(a, b) == IF a > b THEN a ELSE b

\* ------------------------------------------------------------------------
\* Sample sequences, run-length encoded: <<[n, v, tag], ...>> stands for
\* n_1 samples of value v_1 followed by n_2 samples of value v_2, ...
\* ------------------------------------------------------------------------
RECURSIVE SampleLen(_)
SampleLen(s) == IF s = <<>> THEN 0 ELSE Head(s).n + SampleLen(Tail(s))

\* index of the first sample of run k (0-based sample index)
RunStart(s, k) == SampleLen(SubSeq(s, 1, k - 1))

\* number of samples of run k that lie in the half-open range [a, b)
Overlap(s, k, a, b) ==
    Max(0, Min(b, RunStart(s, k) + s[k].n) - Max(a, RunStart(s, k)))

RECURSIVE SumSqFrom(_, _, _, _)
SumSqFrom(s, k, a, b) ==
    IF k > Len(s) THEN 0
    ELSE Overlap(s, k, a, b) * s[k].v * s[k].v + SumSqFrom(s, k + 1, a, b)

\* samples[a..b) as a run-length encoded sequence
RECURSIVE SliceFrom(_, _, _, _)
SliceFrom(s, k, a, b) ==
    IF k > Len(s) THEN <<>>
    ELSE IF Overlap(s, k, a, b) = 0 THEN SliceFrom(s, k + 1, a, b)
    ELSE <<[s[k] EXCEPT !.n = Overlap(s, k, a, b)]>> \o SliceFrom(s, k + 1, a, b)

Slice(s, a, b) == SliceFrom(s, 1, a, b)


\* ------------------------------------------------------------------------
\* audio.rs: pure helpers of the recorder
\* ------------------------------------------------------------------------
\* is_silent closure: sqrt(sum_sq / len) < threshold, squared on both sides
is_silent(s, a, b) ==
    SumSqFrom(s, 1, a, b) * THRESHOLD_INV * THRESHOLD_INV < (b - a)

\* samples.chunks(WINDOW): window w covers [w * WINDOW, min((w+1) * WINDOW, len))
NumWindows(s) == (SampleLen(s) + WINDOW - 1) \div WINDOW

WindowEnd(s, w) == Min((w + 1) * WINDOW, SampleLen(s))

NonSilentWindows(s) ==
    { w \in 0..(NumWindows(s) - 1) : ~is_silent(s, w * WINDOW, WindowEnd(s, w)) }

SetMin(S) == CHOOSE x \in S : \A y \in S : x <= y

SetMax(S) == CHOOSE x \in S : \A y \in S : x >= y

\* mutant: no tail padding after the last non-silent window
trim_silence_no_padding(s) ==
    IF NonSilentWindows(s) = {} THEN <<>>
    ELSE LET start == SetMin(NonSilentWindows(s)) * WINDOW
             end   == Min((SetMax(NonSilentWindows(s)) + 1) * WINDOW, SampleLen(s))
         IN  IF start >= end THEN <<>> ELSE Slice(s, start, end)

trim_silence(s) ==
    IF NonSilentWindows(s) = {} THEN <<>>
    ELSE LET start == SetMin(NonSilentWindows(s)) * WINDOW
             end   == Min((SetMax(NonSilentWindows(s)) + 1) * WINDOW + TAIL_PADDING,
                          SampleLen(s))
         IN  IF start >= end THEN <<>> ELSE Slice(s, start, end)

\* resample_linear for in_rate an integer multiple of out_rate: src_pos =
\* i * ratio is then an integer, frac = 0 and out[i] = input[i * ratio], so
\* run k contributes the output indices i with i * ratio inside the run.
CeilDiv(a, b) == (a + b - 1) \div b

RECURSIVE ResampleFrom(_, _, _, _)
ResampleFrom(s, k, ratio, out_len) ==
    IF k > Len(s) THEN <<>>
    ELSE LET lo == Min(CeilDiv(RunStart(s, k), ratio), out_len)
             hi == Min(CeilDiv(RunStart(s, k) + s[k].n, ratio), out_len)
         IN  (IF hi > lo THEN <<[s[k] EXCEPT !.n = hi - lo]>> ELSE <<>>)
               \o ResampleFrom(s, k + 1, ratio, out_len)

\* mutant: the output length is rounded up
resample_linear_round_up(input, in_rate, out_rate) ==
    IF input = <<>> \/ in_rate = out_rate THEN input
    ELSE ResampleFrom(input, 1, in_rate \div out_rate,
                      CeilDiv(SampleLen(input) * out_rate, in_rate))

resample_linear(input, in_rate, out_rate) ==
    IF input = <<>> \/ in_rate = out_rate THEN input
    ELSE ResampleFrom(input, 1, in_rate \div out_rate,
                      (SampleLen(input) * out_rate) \div in_rate)

\* ------------------------------------------------------------------------
\* formatter.rs: text as a sequence of characters.  A character is a
\* one-character string; the em dash and the en dash are the characters EM
\* and EN, and "e-acute" / "E-acute" stand for a letter outside ASCII.
\* ------------------------------------------------------------------------
Lowers ==
    <<"a", "b", "c", "d", "e", "f", "g", "h", "i", "j", "k", "l", "m",
      "n", "o", "p", "q", "r", "s", "t", "u", "v", "w", "x", "y", "z",
      "e-acute">>

Uppers ==
    <<"A", "B", "C", "D", "E", "F", "G", "H", "I", "J", "K", "L", "M",
      "N", "O", "P", "Q", "R", "S", "T", "U", "V", "W", "X", "Y", "Z",
      "E-acute">>

LowerSet == {Lowers[k] : k \in 1..Len(Lowers)}

UpperSet == {Uppers[k] : k \in 1..Len(Uppers)}

EM == "em-dash"

EN == "en-dash"

Punct == {",", ".", "!", "?", ";", ":", "-", "'", "+", EM, EN}

Ws == {" "}

Chars == LowerSet \cup UpperSet \cup Punct \cup Ws

\* char::is_alphanumeric / char::is_alphabetic on this alphabet
Alnum == LowerSet \cup UpperSet

LowerOf == [c \in UpperSet |-> Lowers[CHOOSE k \in 1..Len(Uppers) : Uppers[k] = c]]

UpperOf == [c \in LowerSet |-> Uppers[CHOOSE k \in 1..Len(Lowers) : Lowers[k] = c]]

\* str::len: the length in bytes of the UTF-8 encoding
ByteLen(s) ==
    Len(s) + Cardinality({k \in 1..Len(s) : s[k] \in {"e-acute", "E-acute"}})
           + 2 * Cardinality({k \in 1..Len(s) : s[k] \in {EM, EN}})

\* str::eq_ignore_ascii_case: only A-Z and a-z are folded
eq_ignore_ascii_case(a, b) ==
    LET fold(s) == [k \in 1..Len(s) |->
                      IF s[k] \in UpperSet \ {"E-acute"} THEN LowerOf[s[k]] ELSE s[k]]
    IN  fold(a) = fold(b)

\* str::to_lowercase
to_lowercase(s) ==
    [k \in 1..Len(s) |-> IF s[k] \in UpperSet THEN LowerOf[s[k]] ELSE s[k]]

\* index of the first character of s that is in / not in set, Len(s) + 1 if none
FirstIn(s, set) ==
    IF \A k \in 1..Len(s) : s[k] \notin set THEN Len(s) + 1
    ELSE CHOOSE k \in 1..Len(s) :
             s[k] \in set /\ \A j \in 1..(k - 1) : s[j] \notin set

FirstNotIn(s, set) == FirstIn(s, Chars \ set)

\* index of the last character of s that is not in set, 0 if none
LastNotIn(s, set) ==
    IF \A k \in 1..Len(s) : s[k] \in set THEN 0
    ELSE CHOOSE k \in 1..Len(s) :
             s[k] \notin set /\ \A j \in (k + 1)..Len(s) : s[j] \in set

\* str::trim_start_matches / trim_end_matches / trim_matches with a set of chars
trim_start_matches(s, set) == SubSeq(s, FirstNotIn(s, set), Len(s))

trim_end_matches(s, set) == SubSeq(s, 1, LastNotIn(s, set))

trim_matches(s, set) == trim_end_matches(trim_start_matches(s, set), set)

\* str::trim
trim(s) == trim_matches(s, Ws)

starts_with(s, prefix) ==
    Len(s) >= Len(prefix) /\ SubSeq(s, 1, Len(prefix)) = prefix

ends_with_any(s, set) == s # <<>> /\ s[Len(s)] \in set

\* str::split_whitespace
RECURSIVE split_whitespace(_)
split_whitespace(s) ==
    LET t == trim_start_matches(s, Ws) IN
    IF t = <<>> THEN <<>>
    ELSE LET k == FirstIn(t, Ws)
         IN  <<SubSeq(t, 1, k - 1)>> \o split_whitespace(SubSeq(t, k, Len(t)))

\* [String]::join(" ")
RECURSIVE join(_)
join(tokens) ==
    IF tokens = <<>> THEN <<>>
    ELSE IF Len(tokens) = 1 THEN tokens[1]
    ELSE tokens[1] \o <<" ">> \o join(Tail(tokens))

tokenize(text) == split_whitespace(text)

collapse_whitespace(text) == join(split_whitespace(text))

\* str::replace(from, to): every non-overlapping occurrence, left to right
RECURSIVE replace(_, _, _)
replace(s, from, to) ==
    IF Len(s) < Len(from) THEN s
    ELSE IF starts_with(s, from)
         THEN to \o replace(SubSeq(s, Len(from) + 1, Len(s)), from, to)
    ELSE <<s[1]>> \o replace(Tail(s), from, to)

\* str::rfind: index of the last occurrence of marker in s, 0 if none
rfind(s, marker) ==
    LET hits == { k \in 1..(Len(s) - Len(marker) + 1) :
                    SubSeq(s, k, k + Len(marker) - 1) = marker }
    IN  IF hits = {} THEN 0 ELSE SetMax(hits)

\* ---- token utilities (formatter.rs 379-398) ----
token_core(token) == to_lowercase(trim_matches(token, Chars \ (Alnum \cup {"'"})))

PauseChars == {",", ";", ":", ".", "!", "?", EM, EN}

token_has_pause(token) == ends_with_any(token, PauseChars)

is_punctuation_only(token) == \A k \in 1..Len(token) : token[k] \notin Alnum

\* ---- cleanup_false_start (formatter.rs 219-246) ----
Markers == << <<EM>>, <<EN>>, <<"-", "-">> >>

DashChars == {"-", EM, EN}

RestartPrefixes ==
    { <<"a", "c", "t", "u", "a", "l", "l", "y">>, <<"l", "e", "t", " ", "m", "e">>, <<"s", "o", "r", "r", "y">>,
      <<"i", " ", "m", "e", "a", "n">>, <<"w", "a", "i", "t">>, <<"n", "o", " ">> }

\* variant without the word limit: only a restart keyword discards `before`
FalseStartAt_keyword_only(input, marker) ==
    LET index == rfind(input, marker)
        before == trim(SubSeq(input, 1, index - 1))
        after  == trim(trim_start_matches(
                         SubSeq(input, index + Len(marker), Len(input)), DashChars))
    IN  IF index = 0 \/ before = <<>> \/ after = <<>>
        THEN [hit |-> FALSE, after |-> <<>>]
        ELSE [hit |-> \E pre \in RestartPrefixes : starts_with(to_lowercase(after), pre),
              after |-> after]

\* one iteration of the loop over the markers: hit = the function returns
\* `after` in this iteration
FalseStartAt(input, marker) ==
    LET index == rfind(input, marker) IN
    IF index = 0 THEN [hit |-> FALSE, after |-> <<>>]
    ELSE LET before == trim(SubSeq(input, 1, index - 1))
             after  == trim(trim_start_matches(
                              SubSeq(input, index + Len(marker), Len(input)),
                              DashChars))
         IN  IF before = <<>> \/ after = <<>> THEN [hit |-> FALSE, after |-> <<>>]
             ELSE [hit |-> \/ \E pre \in RestartPrefixes :
                                  starts_with(to_lowercase(after), pre)
                           \/ Len(split_whitespace(before)) <= 8,
                   after |-> after]

cleanup_false_start(input) ==
    IF FalseStartAt(input, Markers[1]).hit THEN FalseStartAt(input, Markers[1]).after
    ELSE IF FalseStartAt(input, Markers[2]).hit THEN FalseStartAt(input, Markers[2]).after
    ELSE IF FalseStartAt(input, Markers[3]).hit THEN FalseStartAt(input, Markers[3]).after
    ELSE input

\* ---- remove_fillers (formatter.rs 248-301) ----
\* the words the passes compare token cores with
Words ==
    [um |-> <<"u", "m">>, uh |-> <<"u", "h">>, hmm |-> <<"h", "m", "m">>,
     huh |-> <<"h", "u", "h">>, you |-> <<"y", "o", "u">>,
     know |-> <<"k", "n", "o", "w">>, i |-> <<"i">>,
     mean |-> <<"m", "e", "a", "n">>, like |-> <<"l", "i", "k", "e">>,
     were |-> <<"w", "e", "r", "e">>]

\* the loop body at index i (1-based) with the tokens emitted so far
RECURSIVE RemoveFillersFrom(_, _, _)
RemoveFillersFrom(tokens, i, out) ==
    IF i > Len(tokens) THEN out
    ELSE IF is_punctuation_only(tokens[i]) THEN RemoveFillersFrom(tokens, i + 1, out)
    ELSE
      LET current == token_core(tokens[i])
          has_next == i + 1 <= Len(tokens)
          next == IF has_next THEN token_core(tokens[i + 1]) ELSE <<>>
          prev_has_pause == out # <<>> /\ token_has_pause(out[Len(out)])
      IN
      IF current \in {Words.um, Words.uh, Words.hmm} THEN RemoveFillersFrom(tokens, i + 1, out)
      ELSE IF current = Words.uh /\ has_next /\ next = Words.huh
           THEN RemoveFillersFrom(tokens, i + 2, out)
      ELSE IF /\ current = Words.you /\ has_next /\ next = Words.know
              /\ (prev_has_pause \/ token_has_pause(tokens[i + 1]))
           THEN RemoveFillersFrom(tokens, i + 2, out)
      ELSE IF /\ current = Words.i /\ has_next /\ next = Words.mean
              /\ (prev_has_pause \/ token_has_pause(tokens[i + 1]))
           THEN RemoveFillersFrom(tokens, i + 2, out)
      ELSE IF current = Words.like /\ (prev_has_pause \/ token_has_pause(tokens[i]))
           THEN RemoveFillersFrom(tokens, i + 1, out)
      ELSE RemoveFillersFrom(tokens, i + 1, Append(out, tokens[i]))

\* variant that drops every 'like', whatever the punctuation around it
remove_fillers_ungated(tokens) ==
    SelectSeq(tokens, LAMBDA t : /\ ~is_punctuation_only(t)
                                 /\ token_core(t) \notin {Words.um, Words.uh, Words.hmm, Words.like})

remove_fillers(tokens) == RemoveFillersFrom(tokens, 1, <<>>)

\* ---- collapse_repeated_phrases (formatter.rs 303-355) ----
\* start is 0-based, as in the source
repeated_phrase_at_any_core(cores, start, phrase_len) ==
    /\ phrase_len # 0
    /\ start + phrase_len * 2 <= Len(cores)
    /\ SubSeq(cores, start + 1, start + phrase_len)
         = SubSeq(cores, start + phrase_len + 1, start + phrase_len * 2)

repeated_phrase_at(cores, start, phrase_len) ==
    IF phrase_len = 0 \/ start + phrase_len * 2 > Len(cores) THEN FALSE
    ELSE LET left  == SubSeq(cores, start + 1, start + phrase_len)
             right == SubSeq(cores, start + phrase_len + 1, start + phrase_len * 2)
         IN  /\ \A k \in 1..phrase_len : left[k] # <<>> /\ right[k] # <<>>
             /\ left = right

\* the inner while: skip every further consecutive copy of phrase
RECURSIVE SkipRepeats(_, _, _, _)
SkipRepeats(cores, i, matched_len, phrase) ==
    IF i + matched_len <= Len(cores)
         /\ SubSeq(cores, i + 1, i + matched_len) = phrase
    THEN SkipRepeats(cores, i + matched_len, matched_len, phrase)
    ELSE i

\* the outer while at 0-based index i
RECURSIVE CollapseFrom(_, _, _, _)
CollapseFrom(tokens, cores, i, out) ==
    IF i >= Len(tokens) THEN out
    ELSE
      LET remaining == Len(tokens) - i
          max_phrase_len == Min(3, remaining \div 2)
          lens == { l \in 1..max_phrase_len : repeated_phrase_at(cores, i, l) }
          matched_len == IF lens = {} THEN 0 ELSE SetMax(lens)
      IN
      IF matched_len = 0
      THEN CollapseFrom(tokens, cores, i + 1, Append(out, tokens[i + 1]))
      ELSE CollapseFrom(tokens, cores,
                        SkipRepeats(cores, i + matched_len, matched_len,
                                    SubSeq(cores, i + 1, i + matched_len)),
                        out \o SubSeq(tokens, i + 1, i + matched_len))

collapse_repeated_phrases(tokens) ==
    IF Len(tokens) < 2 THEN tokens
    ELSE CollapseFrom(tokens, [k \in 1..Len(tokens) |-> token_core(tokens[k])],
                      0, <<>>)

\* ---- remove_stutter_before_contraction (formatter.rs 357-375) ----
IsStutter(tokens, index) ==
    /\ ByteLen(token_core(tokens[index])) = 1
    /\ index + 1 <= Len(tokens)
    /\ starts_with(token_core(tokens[index + 1]),
                   token_core(tokens[index]) \o <<"'">>)

RECURSIVE StutterFrom(_, _)
StutterFrom(tokens, index) ==
    IF index > Len(tokens) THEN <<>>
    ELSE (IF IsStutter(tokens, index) THEN <<>> ELSE <<tokens[index]>>)
           \o StutterFrom(tokens, index + 1)

remove_stutter_before_contraction(tokens) == StutterFrom(tokens, 1)

\* ---- normalize_spacing (formatter.rs 400-417) ----
SpacingFixes == <<",", ".", "!", "?", ";", ":">>

RECURSIVE ApplySpacing(_, _)
ApplySpacing(text, k) ==
    IF k > Len(SpacingFixes) THEN text
    ELSE ApplySpacing(replace(text, <<" ", SpacingFixes[k]>>, <<SpacingFixes[k]>>),
                      k + 1)

normalize_spacing(text) ==
    trim(trim_matches(collapse_whitespace(ApplySpacing(text, 1)), {","}))

\* ---- smart_cleanup (formatter.rs 197-207) ----
smart_cleanup(input) ==
    normalize_spacing(join(
        remove_stutter_before_contraction(
            collapse_repeated_phrases(
                remove_fillers(
                    tokenize(cleanup_false_start(
                        collapse_whitespace(trim(input)))))))))

\* ---- capitalize_i_forms (formatter.rs 114-147) ----
TrailChars == {",", ".", "!", "?"}

\* str::replacen("i", "I", 1)
ReplaceFirstI(s) ==
    LET k == FirstIn(s, {"i"}) IN
    IF k > Len(s) THEN s ELSE [s EXCEPT ![k] = "I"]

capitalize_i_word(word) ==
    LET lower == to_lowercase(word)
        base == trim_end_matches(lower, TrailChars)
        fixed == IF base = Words.i THEN ReplaceFirstI(lower)
                 ELSE IF starts_with(base, <<"i", "'">>) THEN <<"I">> \o Tail(lower)
                 ELSE word
        trailing == SubSeq(word, LastNotIn(word, TrailChars) + 1, Len(word))
    IN  IF trailing # <<>> /\ ~ends_with_any(fixed, TrailChars)
        THEN fixed \o trailing ELSE fixed

capitalize_i_forms(text) ==
    LET words == split_whitespace(text)
    IN  join([k \in 1..Len(words) |-> capitalize_i_word(words[k])])

\* ---- replace_whole_word_ci (formatter.rs 150-173) ----
\* variant without the exception for "were"
replace_word_ci_rewrites_were(word, from, to) ==
    LET stripped == trim_end_matches(word, TrailChars)
    IN  IF eq_ignore_ascii_case(stripped, from)
        THEN to \o SubSeq(word, Len(stripped) + 1, Len(word))
        ELSE word

replace_word_ci(word, from, to) ==
    LET stripped == trim_end_matches(word, TrailChars)
        trailing == SubSeq(word, Len(stripped) + 1, Len(word))
    IN  IF eq_ignore_ascii_case(stripped, from)
        THEN IF from = Words.were THEN word ELSE to \o trailing
        ELSE word

replace_whole_word_ci(text, from, to) ==
    LET words == split_whitespace(text)
    IN  join([k \in 1..Len(words) |-> replace_word_ci(words[k], from, to)])

\* ---- format_text (formatter.rs 61-110) ----
contraction_fixes ==
    << <<<<"d", "o", "n", "t">>, <<"d", "o", "n", "'", "t">>>>,
       <<<<"c", "a", "n", "t">>, <<"c", "a", "n", "'", "t">>>>,
       <<<<"w", "o", "n", "t">>, <<"w", "o", "n", "'", "t">>>>,
       <<<<"d", "i", "d", "n", "t">>, <<"d", "i", "d", "n", "'", "t">>>>,
       <<<<"d", "o", "e", "s", "n", "t">>, <<"d", "o", "e", "s", "n", "'", "t">>>>,
       <<<<"i", "s", "n", "t">>, <<"i", "s", "n", "'", "t">>>>,
       <<<<"w", "a", "s", "n", "t">>, <<"w", "a", "s", "n", "'", "t">>>>,
       <<<<"w", "e", "r", "e", "n", "t">>, <<"w", "e", "r", "e", "n", "'", "t">>>>,
       <<<<"w", "o", "u", "l", "d", "n", "t">>, <<"w", "o", "u", "l", "d", "n", "'", "t">>>>,
       <<<<"c", "o", "u", "l", "d", "n", "t">>, <<"c", "o", "u", "l", "d", "n", "'", "t">>>>,
       <<<<"s", "h", "o", "u", "l", "d", "n", "t">>, <<"s", "h", "o", "u", "l", "d", "n", "'", "t">>>>,
       <<<<"h", "a", "s", "n", "t">>, <<"h", "a", "s", "n", "'", "t">>>>,
       <<<<"h", "a", "v", "e", "n", "t">>, <<"h", "a", "v", "e", "n", "'", "t">>>>,
       <<<<"h", "a", "d", "n", "t">>, <<"h", "a", "d", "n", "'", "t">>>>,
       <<<<"y", "o", "u", "r", "e">>, <<"y", "o", "u", "'", "r", "e">>>>,
       <<<<"t", "h", "e", "y", "r", "e">>, <<"t", "h", "e", "y", "'", "r", "e">>>>,
       <<<<"w", "e", "r", "e">>, <<"w", "e", "'", "r", "e">>>>,
       <<<<"t", "h", "a", "t", "s">>, <<"t", "h", "a", "t", "'", "s">>>>,
       <<<<"w", "h", "a", "t", "s">>, <<"w", "h", "a", "t", "'", "s">>>>,
       <<<<"h", "e", "r", "e", "s">>, <<"h", "e", "r", "e", "'", "s">>>>,
       <<<<"t", "h", "e", "r", "e", "s">>, <<"t", "h", "e", "r", "e", "'", "s">>>>,
       <<<<"l", "e", "t", "s">>, <<"l", "e", "t", "'", "s">>>> >>

RECURSIVE FixContractions(_, _)
FixContractions(text, k) ==
    IF k > Len(contraction_fixes) THEN text
    ELSE LET fixed == replace_whole_word_ci(text, contraction_fixes[k][1],
                                            contraction_fixes[k][2])
         IN  \* each pass is complete before the next one starts
             IF Len(fixed) >= 0 THEN FixContractions(fixed, k + 1) ELSE fixed

\* capitalize_sentences (formatter.rs 176-193)
RECURSIVE CapitalizeFrom(_, _, _)
CapitalizeFrom(text, k, capitalize_next) ==
    IF k > Len(text) THEN <<>>
    ELSE IF capitalize_next /\ text[k] \in Alnum
         THEN <<IF text[k] \in LowerSet THEN UpperOf[text[k]] ELSE text[k]>>
                \o CapitalizeFrom(text, k + 1, FALSE)
    ELSE <<text[k]>>
           \o CapitalizeFrom(text, k + 1,
                             capitalize_next \/ text[k] \in {".", "!", "?"})

capitalize_sentences(text) == CapitalizeFrom(text, 1, TRUE)

SentenceEnd == {".", "!", "?"}

\* mutant: no trailing period is appended
ensure_trailing_punctuation_off(text) == text

ensure_trailing_punctuation(text) ==
    IF ends_with_any(text, SentenceEnd) THEN text ELSE Append(text, ".")

format_text(input) ==
    LET text == trim(smart_cleanup(input)) IN
    IF text = <<>> THEN <<>>
    ELSE ensure_trailing_punctuation(
             capitalize_sentences(FixContractions(capitalize_i_forms(text), 1)))

\* ---- apply_replacements (formatter.rs 33-59) ----
\* the inner loop over the entries, from entry j on
RECURSIVE replace_by_entries(_, _, _)
replace_by_entries(word, replacements, j) ==
    LET stripped == trim_end_matches(word, TrailChars)
        trailing == SubSeq(word, Len(stripped) + 1, Len(word))
    IN  IF j > Len(replacements) THEN word
        ELSE IF eq_ignore_ascii_case(stripped, replacements[j].from)
             THEN replacements[j].to \o trailing
        ELSE replace_by_entries(word, replacements, j + 1)

\* variant that applies every entry in turn to the result of the one before
RECURSIVE rematch_by_entries(_, _, _)
rematch_by_entries(word, replacements, j) ==
    IF j > Len(replacements) THEN word
    ELSE rematch_by_entries(replace_by_entries(word, <<replacements[j]>>, 1),
                            replacements, j + 1)

apply_replacements_rematching(text, replacements) ==
    LET words == split_whitespace(text)
    IN  IF replacements = <<>> THEN text
        ELSE join([k \in 1..Len(words) |-> rematch_by_entries(words[k], replacements, 1)])

apply_replacements(text, replacements) ==
    LET words == split_whitespace(text)
    IN  IF replacements = <<>> THEN text
        ELSE join([k \in 1..Len(words) |-> replace_by_entries(words[k], replacements, 1)])

\* ------------------------------------------------------------------------
\* hotkey.rs: config_combo_to_shortcut (70-88), on texts as in formatter.rs
\* ------------------------------------------------------------------------
\* str::split(sep): the pieces between the separators, empty ones included
RECURSIVE split_char(_, _)
split_char(s, sep) ==
    LET k == FirstIn(s, {sep}) IN
    IF k > Len(s) THEN <<s>>
    ELSE <<SubSeq(s, 1, k - 1)>> \o split_char(SubSeq(s, k + 1, Len(s)), sep)

\* the match on the trimmed, lowercased token
key_aliases ==
    { <<<<"c", "t", "r", "l">>, <<"C", "o", "n", "t", "r", "o", "l">>>>,
      <<<<"c", "o", "n", "t", "r", "o", "l">>, <<"C", "o", "n", "t", "r", "o", "l">>>>,
      <<<<"s", "h", "i", "f", "t">>, <<"S", "h", "i", "f", "t">>>>,
      <<<<"a", "l", "t">>, <<"A", "l", "t">>>>,
      <<<<"o", "p", "t", "i", "o", "n">>, <<"A", "l", "t">>>>,
      <<<<"c", "m", "d">>, <<"S", "u", "p", "e", "r">>>>,
      <<<<"m", "e", "t", "a">>, <<"S", "u", "p", "e", "r">>>>,
      <<<<"s", "u", "p", "e", "r">>, <<"S", "u", "p", "e", "r">>>>,
      <<<<"s", "p", "a", "c", "e">>, <<"S", "p", "a", "c", "e">>>> }

RECURSIVE join_with(_, _)
join_with(parts, sep) ==
    IF parts = <<>> THEN <<>>
    ELSE IF Len(parts) = 1 THEN parts[1]
    ELSE parts[1] \o <<sep>> \o join_with(Tail(parts), sep)

\* variant that leaves unknown tokens out instead of failing
config_combo_skips_unknown(combo) ==
    LET tokens == split_char(combo, "+")
        known == SelectSeq([k \in 1..Len(tokens) |-> to_lowercase(trim(tokens[k]))],
                           LAMBDA t : \E a \in key_aliases : a[1] = t)
    IN  [ok |-> TRUE,
         value |-> join_with([k \in 1..Len(known) |->
                               (CHOOSE a \in key_aliases : a[1] = known[k])[2]], "+")]

\* Ok(value) is the shortcut; Err carries the token of the message
\* "unsupported key token: {other}"
config_combo_to_shortcut(combo) ==
    LET tokens == split_char(combo, "+")
        lowered == [k \in 1..Len(tokens) |-> to_lowercase(trim(tokens[k]))]
        bad == { k \in 1..Len(tokens) : \A a \in key_aliases : a[1] # lowered[k] }
    IN  IF bad # {} THEN [ok |-> FALSE, value |-> lowered[SetMin(bad)]]
        ELSE [ok |-> TRUE,
              value |-> join_with([k \in 1..Len(tokens) |->
                                    (CHOOSE a \in key_aliases : a[1] = lowered[k])[2]], "+")]

\* ------------------------------------------------------------------------
\* State
\* ------------------------------------------------------------------------
VARIABLES
    inner,        \* InnerState: status, toggle_shortcut_held, press_instant, toggle_active
    recorder,     \* InnerState.recorder: stream, samples, sample_rate
    whisper_ctx,  \* AppState.whisper_ctx: None or Some(model)
    model_ready,  \* AppState.model_ready
    tasks,        \* bag of control tasks in flight (async tasks / commands)
    emitted,      \* the status event set_widget_state emitted in the last step
    key_down,     \* environment: the hotkey is physically down
    ret,          \* result handed back by the task that finished in the last step
    rs_in,        \* inputs of the function or object checked on its own
    rs_out        \* its result, or the object's state

vars == <<inner, recorder, whisper_ctx, model_ready, tasks, emitted, key_down,
          ret, rs_in, rs_out>>

sessionVars == <<inner, recorder, whisper_ctx, model_ready, tasks, emitted,
                 key_down, ret>>

NoRet == [kind |-> "none", origin |-> "none", ok |-> TRUE, cause |-> "none",
          passed |-> FALSE, text |-> ""]

NoInput == [pressed |-> FALSE, is_idle |-> FALSE, is_recording |-> FALSE,
            toggle_shortcut_held |-> FALSE, toggle_active |-> FALSE,
            held_ms |-> None]

\* a control task: kind start | stop | cancel, origin hotkey | command,
\*   pc      the next step it will take
\*   passed  it found its precondition true (Idle for start, Recording else)
\*   found   the status it found at its precondition check
\*   audio   the samples a stop pulled from the recorder
\*   text    "" | "normalized" | "structured"
\*   cause   the error it failed with
\*   structure  what prompt::structure_prompt answered, "none" if not called
\*   toggle  toggle_active as a stop found it at its precondition check
NewTask(kind, origin) ==
    [kind |-> kind, origin |-> origin,
     pc |-> IF kind = "start" THEN "start_check"
            ELSE IF kind = "stop" THEN "stop_check" ELSE "cancel_check",
     passed |-> FALSE, found |-> "none", audio |-> <<>>,
     text |-> "", cause |-> "none", structure |-> "none", toggle |-> FALSE]

TaskSet == BagToSet(tasks)

Replace(t, u) == (tasks (-) SetToBag({t})) (+) SetToBag({u})

Remove(t) == tasks (-) SetToBag({t})

Spawn(u) == tasks (+) SetToBag({u})

CanSpawn == BagCardinality(tasks) < MaxTasks

\* ------------------------------------------------------------------------
\* state.rs
\* ------------------------------------------------------------------------
\* mutant: the reset forgets the toggle flag
reset_to_idle_keeps_toggle(in) ==
    [in EXCEPT !.status = Idle, !.press_instant = None]

reset_to_idle(in) ==
    [in EXCEPT !.status = Idle, !.toggle_active = FALSE, !.press_instant = None]

InitInner ==
    [status |-> Idle, toggle_shortcut_held |-> FALSE, press_instant |-> None,
     toggle_active |-> FALSE]

InitRecorder ==
    [stream |-> FALSE, samples |-> <<>>, sample_rate |-> TARGET_RATE,
     on_level |-> None]


\* ------------------------------------------------------------------------
\* audio.rs: AudioRecorder
\* ------------------------------------------------------------------------
\* ghost: re-tag the samples held in the buffer
Retag(samples, from, to) ==
    [k \in 1..Len(samples) |->
        IF samples[k].tag \in from THEN [samples[k] EXCEPT !.tag = to]
        ELSE samples[k]]

\* outcome: what the device does when the stream is opened
\*   "no_device"  no default input device / config (fails before the clear)
\*   "build_err"  unsupported format, build_input_stream or play fails
\*   "ok"         the stream plays
StartOutcomes == {"ok", "no_device", "build_err"}

\* mutant: start opens a fresh stream even when one is active
AudioRecorder_start_reinit(rec, outcome, rate, on_level) ==
    IF outcome = "no_device" THEN [rec |-> rec, ok |-> FALSE]
    ELSE [rec |-> [stream |-> (outcome = "ok"), samples |-> <<>>,
                   sample_rate |-> rate,
                   on_level |-> IF outcome = "ok" THEN Some(on_level) ELSE None],
          ok |-> (outcome = "ok")]

\* on_level: the level callback, owned by the stream's data closure and
\* dropped with it
AudioRecorder_start(rec, outcome, rate, on_level) ==
    IF rec.stream THEN [rec |-> rec, ok |-> TRUE]
    ELSE IF outcome = "no_device" THEN [rec |-> rec, ok |-> FALSE]
    ELSE [rec |-> [stream |-> (outcome = "ok"), samples |-> <<>>,
                   sample_rate |-> rate,
                   on_level |-> IF outcome = "ok" THEN Some(on_level) ELSE None],
          ok |-> (outcome = "ok")]

\* mutant: stop reads the samples out but leaves the stream playing
AudioRecorder_stop_keeps_stream(rec) ==
    IF ~rec.stream THEN [rec |-> rec, out |-> <<>>]
    ELSE [rec |-> rec,
          out |-> trim_silence(
                    IF rec.sample_rate = TARGET_RATE THEN rec.samples
                    ELSE resample_linear(rec.samples, rec.sample_rate, TARGET_RATE))]

AudioRecorder_stop(rec) ==
    IF ~rec.stream THEN [rec |-> rec, out |-> <<>>]
    ELSE [rec |-> [rec EXCEPT !.stream = FALSE, !.on_level = None],
          out |-> trim_silence(
                    IF rec.sample_rate = TARGET_RATE THEN rec.samples
                    ELSE resample_linear(rec.samples, rec.sample_rate, TARGET_RATE))]

\* the device callback: append the mono samples of one chunk
capture_chunk(rec, chunk) ==
    [rec EXCEPT !.samples = Append(rec.samples, chunk)]

\* mutant: the level is emitted without stamping last_emit
level_throttle_no_stamp(last_emit, now) ==
    [emit |-> now - last_emit >= LEVEL_INTERVAL_MS, last_emit |-> last_emit]

\* the tail of capture_chunk: emit a level when at least LEVEL_INTERVAL_MS
\* have elapsed since last_emit, and stamp last_emit then
level_throttle(last_emit, now) ==
    IF now - last_emit >= LEVEL_INTERVAL_MS
    THEN [emit |-> TRUE, last_emit |-> now]
    ELSE [emit |-> FALSE, last_emit |-> last_emit]

\* ------------------------------------------------------------------------
\* hotkey.rs: the pure resolver
\* ------------------------------------------------------------------------
\* mutant: a hold of exactly the threshold counts as a quick tap
resolve_strict_threshold(pressed, is_idle, is_recording, toggle_shortcut_held, toggle_active, held_ms) ==
    IF pressed THEN
        IF toggle_shortcut_held THEN "None"
        ELSE IF toggle_active THEN "Stop"
        ELSE IF is_idle THEN "Start"
        ELSE "None"
    ELSE
        IF is_recording /\ ~toggle_active THEN
            LET ms == IF held_ms = None THEN HOLD_THRESHOLD_MS + 1 ELSE held_ms[1]
            IN  IF ms > HOLD_THRESHOLD_MS THEN "Stop" ELSE "ToggleActivated"
        ELSE "None"

\* mutant: on a press the idle check comes before the toggle check
resolve_idle_before_toggle(pressed, is_idle, is_recording, toggle_shortcut_held, toggle_active, held_ms) ==
    IF pressed THEN
        IF toggle_shortcut_held THEN "None"
        ELSE IF is_idle THEN "Start"
        ELSE IF toggle_active THEN "Stop"
        ELSE "None"
    ELSE
        IF is_recording /\ ~toggle_active THEN
            LET ms == IF held_ms = None THEN HOLD_THRESHOLD_MS + 1 ELSE held_ms[1]
            IN  IF ms >= HOLD_THRESHOLD_MS THEN "Stop" ELSE "ToggleActivated"
        ELSE "None"

resolve_shortcut_action(pressed, is_idle, is_recording, toggle_shortcut_held, toggle_active, held_ms) ==
    IF pressed THEN
        IF toggle_shortcut_held THEN "None"
        ELSE IF toggle_active THEN "Stop"
        ELSE IF is_idle THEN "Start"
        ELSE "None"
    ELSE
        IF is_recording /\ ~toggle_active THEN
            LET ms == IF held_ms = None THEN HOLD_THRESHOLD_MS + 1 ELSE held_ms[1]
            IN  IF ms >= HOLD_THRESHOLD_MS THEN "Stop" ELSE "ToggleActivated"
        ELSE "None"

\* ------------------------------------------------------------------------
\* lib.rs: handle_shortcut_event, the part under the session lock
\* ------------------------------------------------------------------------
\* variant without the stale-toggle cleanup
CleanStale_skipped(in) == in

\* stale-toggle cleanup
CleanStale(in) ==
    IF in.toggle_active /\ in.status # Recording
    THEN [in EXCEPT !.toggle_active = FALSE, !.press_instant = None]
    ELSE in

\* the inline decision: the action chosen and the InnerState it leaves
ShortcutPressed(in) ==
    IF in.toggle_shortcut_held THEN [action |-> "None", inner |-> in]
    ELSE IF in.toggle_active
         THEN [action |-> "Stop",
               inner |-> [in EXCEPT !.toggle_shortcut_held = TRUE,
                                    !.toggle_active = FALSE]]
    ELSE IF in.status = Idle
         THEN [action |-> "Start",
               inner |-> [in EXCEPT !.toggle_shortcut_held = TRUE,
                                    !.press_instant = Some(0)]]
    ELSE [action |-> "None", inner |-> [in EXCEPT !.toggle_shortcut_held = TRUE]]

\* variant in which a hold of exactly the threshold is still a quick tap
ShortcutReleased_strict(in) ==
    IF in.status = Recording /\ ~in.toggle_active THEN
        LET held_ms == IF in.press_instant = None THEN HOLD_THRESHOLD_MS + 1
                       ELSE in.press_instant[1]
        IN  IF held_ms > HOLD_THRESHOLD_MS
            THEN [action |-> "Stop",
                  inner |-> [in EXCEPT !.toggle_shortcut_held = FALSE]]
            ELSE [action |-> "ToggleActivated",
                  inner |-> [in EXCEPT !.toggle_shortcut_held = FALSE,
                                       !.toggle_active = TRUE]]
    ELSE [action |-> "None", inner |-> [in EXCEPT !.toggle_shortcut_held = FALSE]]

ShortcutReleased(in) ==
    IF in.status = Recording /\ ~in.toggle_active THEN
        LET held_ms == IF in.press_instant = None THEN HOLD_THRESHOLD_MS + 1
                       ELSE in.press_instant[1]
        IN  IF held_ms >= HOLD_THRESHOLD_MS
            THEN [action |-> "Stop",
                  inner |-> [in EXCEPT !.toggle_shortcut_held = FALSE]]
            ELSE [action |-> "ToggleActivated",
                  inner |-> [in EXCEPT !.toggle_shortcut_held = FALSE,
                                       !.toggle_active = TRUE]]
    ELSE [action |-> "None", inner |-> [in EXCEPT !.toggle_shortcut_held = FALSE]]

ShortcutDecision(pressed, in) ==
    IF pressed THEN ShortcutPressed(CleanStale(in))
    ELSE ShortcutReleased(CleanStale(in))

\* The handler: decide and mutate the flags under the lock, then spawn the
\* control task for Start / Stop (ToggleActivated only emits an event).
handle_shortcut_event(pressed) ==
    LET d == ShortcutDecision(pressed, inner) IN
    /\ d.action \in {"Start", "Stop"} => CanSpawn
    /\ inner' = d.inner
    /\ tasks' = IF d.action = "Start" THEN Spawn(NewTask("start", "hotkey"))
                ELSE IF d.action = "Stop" THEN Spawn(NewTask("stop", "hotkey"))
                ELSE tasks
    /\ ret' = NoRet
    /\ emitted' = "none"
    /\ UNCHANGED <<recorder, whisper_ctx, model_ready, rs_in, rs_out>>

\* environment: the physical key
PressKey ==
    /\ ~key_down
    /\ key_down' = TRUE
    /\ handle_shortcut_event(TRUE)

KeyRepeat ==
    /\ key_down
    /\ key_down' = key_down
    /\ handle_shortcut_event(TRUE)

ReleaseKey ==
    /\ key_down
    /\ key_down' = FALSE
    /\ handle_shortcut_event(FALSE)


\* ------------------------------------------------------------------------
\* Control tasks
\* ------------------------------------------------------------------------
Returned(t, ok, cause, text) ==
    [kind |-> t.kind, origin |-> t.origin, ok |-> ok, cause |-> cause,
     passed |-> t.passed, text |-> text]

\* A task's function returns.  A command hands the result to its caller.  The
\* closure spawned by handle_shortcut_event goes on to its error branch when
\* the result is an Err (lib.rs 684-692).  t is the task as it stands in the
\* bag, u the same task with what this step learnt.
Finish(t, u, ok, cause, text) ==
    IF u.origin = "hotkey" /\ ~ok
    THEN [tasks |-> Replace(t, [u EXCEPT !.pc = "hk_error_widget",
                                         !.cause = cause, !.audio = <<>>]),
          ret   |-> NoRet]
    ELSE [tasks |-> Remove(t), ret |-> Returned(u, ok, cause, text)]

Goto(t, pc) == Replace(t, [t EXCEPT !.pc = pc])

\* set_widget_state(app, status, ..): one status event to the UI
EmitStep(t, status, pc) ==
    /\ emitted' = status
    /\ tasks' = Goto(t, pc)
    /\ ret' = NoRet
    /\ UNCHANGED <<inner, recorder, whisper_ctx, model_ready, key_down, rs_in, rs_out>>

\* set_widget_state(app, status, ..) followed by the function's return
EmitAndFinish(t, status, text) ==
    /\ emitted' = status
    /\ tasks' = Finish(t, t, TRUE, "none", text).tasks
    /\ ret' = Finish(t, t, TRUE, "none", text).ret
    /\ UNCHANGED <<inner, recorder, whisper_ctx, model_ready, key_down, rs_in, rs_out>>

\* with_state(|inner| { inner.reset_to_idle(); Ok(()) })
ResetStep(t, pc) ==
    /\ inner' = reset_to_idle(inner)
    /\ tasks' = Goto(t, pc)
    /\ ret' = NoRet
    /\ emitted' = "none"
    /\ UNCHANGED <<recorder, whisper_ctx, model_ready, key_down, rs_in, rs_out>>

\* ---- start_recording_inner (pipeline.rs 13-49) ----
\* model_ready is only ever stored true after setup, so loading it (line 16)
\* and taking the session lock (line 20) are modelled as one step.
\* mutant: only Processing blocks a start
start_precondition_not_processing(in) == in.status # Processing

start_precondition(in) == in.status = Idle

start_check(t) ==
    /\ t.pc = "start_check"
    /\ \E model_exists \in BOOLEAN :
         LET u == [t EXCEPT !.found = inner.status,
                            !.passed = model_ready /\ start_precondition(inner)
                                       /\ model_exists]
         IN
         IF ~model_ready THEN
             /\ tasks' = Finish(t, t, FALSE, "model_loading", "").tasks
             /\ ret' = Finish(t, t, FALSE, "model_loading", "").ret
             /\ UNCHANGED <<inner, recorder>>
         ELSE IF ~start_precondition(inner) THEN
             /\ tasks' = Finish(t, u, TRUE, "none", "").tasks
             /\ ret' = Finish(t, u, TRUE, "none", "").ret
             /\ UNCHANGED <<inner, recorder>>
         ELSE IF ~model_exists THEN
             /\ inner' = reset_to_idle(inner)
             /\ tasks' = Finish(t, u, FALSE, "model_missing", "").tasks
             /\ ret' = Finish(t, u, FALSE, "model_missing", "").ret
             /\ UNCHANGED recorder
         ELSE
             /\ inner' = [inner EXCEPT !.status = Recording]
             /\ recorder' = [recorder EXCEPT
                               !.samples = Retag(@, {"live"}, "stale")]
             /\ tasks' = Replace(t, [u EXCEPT !.pc = "start_widget"])
             /\ ret' = NoRet
    /\ emitted' = "none"
    /\ UNCHANGED <<whisper_ctx, model_ready, key_down, rs_in, rs_out>>

start_widget(t) ==
    /\ t.pc = "start_widget"
    /\ EmitStep(t, "recording", "start_capture")

start_capture(t) ==
    /\ t.pc = "start_capture"
    /\ \E outcome \in StartOutcomes, rate \in DeviceRates :
         LET r == AudioRecorder_start(recorder, outcome, rate, "audio_level")
             f == Finish(t, t, r.ok, IF r.ok THEN "none" ELSE "capture", "")
         IN  /\ recorder' = r.rec
             /\ tasks' = f.tasks
             /\ ret' = f.ret
    /\ emitted' = "none"
    /\ UNCHANGED <<inner, whisper_ctx, model_ready, key_down, rs_in, rs_out>>

\* ---- the error branch of the spawned closure (lib.rs 684-692) ----
hk_error_widget(t) ==
    /\ t.pc = "hk_error_widget"
    /\ EmitStep(t, "error", "hk_error_reset")

\* `let _ = recorder.stop()`: the recorder after a stop whose samples are
\* dropped (audio.rs 168-173)
AudioRecorder_stop_dropped(rec) ==
    IF ~rec.stream THEN rec
    ELSE [rec EXCEPT !.stream = FALSE, !.on_level = None]

\* variant that leaves the recorder alone
failure_reset_keeps_capture(in, rec) ==
    [inner |-> [reset_to_idle(in) EXCEPT !.toggle_shortcut_held = FALSE],
     recorder |-> rec]

\* reset_to_idle, clear toggle_shortcut_held, `let _ = recorder.stop()`
failure_reset(in, rec) ==
    [inner |-> [reset_to_idle(in) EXCEPT !.toggle_shortcut_held = FALSE],
     recorder |-> AudioRecorder_stop_dropped(rec)]

hk_error_reset(t) ==
    /\ t.pc = "hk_error_reset"
    /\ inner' = failure_reset(inner, recorder).inner
    /\ recorder' = failure_reset(inner, recorder).recorder
    /\ tasks' = Remove(t)
    /\ ret' = Returned(t, FALSE, t.cause, "")
    /\ emitted' = "none"
    /\ UNCHANGED <<whisper_ctx, model_ready, key_down, rs_in, rs_out>>

\* ---- cancel_recording_inner (pipeline.rs 51-66) ----
cancel_precondition(in) == in.status = Recording

cancel_check(t) ==
    /\ t.pc = "cancel_check"
    /\ IF ~cancel_precondition(inner) THEN UNCHANGED <<inner, recorder>>
       ELSE /\ recorder' = [AudioRecorder_stop(recorder).rec EXCEPT
                              !.samples = Retag(@, {"live", "stale"}, "cancelled")]
            /\ inner' = reset_to_idle(inner)
    /\ tasks' = Replace(t, [t EXCEPT !.pc = "cancel_widget",
                                     !.found = inner.status,
                                     !.passed = cancel_precondition(inner)])
    /\ ret' = NoRet
    /\ emitted' = "none"
    /\ UNCHANGED <<whisper_ctx, model_ready, key_down, rs_in, rs_out>>

cancel_widget(t) ==
    /\ t.pc = "cancel_widget"
    /\ EmitAndFinish(t, "idle", "")


\* ---- stop_recording_inner (pipeline.rs 68-244) ----
stop_precondition(in) == in.status = Recording

\* variant without the minimum length: any audio at all is transcribed
AfterStopCheck_no_minimum(audio) ==
    IF audio = <<>> THEN "stop_empty_widget" ELSE "stop_processing_widget"

\* where the function goes once it holds the audio (pipeline.rs 118-140)
AfterStopCheck(audio) ==
    IF audio = <<>> THEN "stop_empty_widget"
    ELSE IF SampleLen(audio) < MIN_TRANSCRIBE_SAMPLES THEN "stop_short_reset"
    ELSE "stop_processing_widget"

stop_check(t) ==
    /\ t.pc = "stop_check"
    /\ IF ~stop_precondition(inner) THEN
           /\ tasks' = Replace(t, [t EXCEPT !.pc = AfterStopCheck(<<>>),
                                            !.found = inner.status])
           /\ UNCHANGED <<inner, recorder>>
       ELSE
           LET r == AudioRecorder_stop(recorder) IN
           /\ inner' = [inner EXCEPT !.status = Processing]
           /\ recorder' = r.rec
           /\ tasks' = Replace(t, [t EXCEPT !.pc = AfterStopCheck(r.out),
                                            !.found = inner.status,
                                            !.passed = TRUE,
                                            !.toggle = inner.toggle_active,
                                            !.audio = r.out])
    /\ ret' = NoRet
    /\ emitted' = "none"
    /\ UNCHANGED <<whisper_ctx, model_ready, key_down, rs_in, rs_out>>

stop_empty_widget(t) ==
    /\ t.pc = "stop_empty_widget"
    /\ EmitStep(t, "idle", "stop_empty_reset")

stop_empty_reset(t) ==
    /\ t.pc = "stop_empty_reset"
    /\ inner' = reset_to_idle(inner)
    /\ tasks' = Finish(t, t, TRUE, "none", "").tasks
    /\ ret' = Finish(t, t, TRUE, "none", "").ret
    /\ emitted' = "none"
    /\ UNCHANGED <<recorder, whisper_ctx, model_ready, key_down, rs_in, rs_out>>

stop_short_reset(t) ==
    /\ t.pc = "stop_short_reset"
    /\ inner' = reset_to_idle(inner)
    /\ tasks' = Replace(t, [t EXCEPT !.audio = <<>>, !.pc = "stop_short_widget"])
    /\ ret' = NoRet
    /\ emitted' = "none"
    /\ UNCHANGED <<recorder, whisper_ctx, model_ready, key_down, rs_in, rs_out>>

stop_short_widget(t) ==
    /\ t.pc = "stop_short_widget"
    /\ EmitAndFinish(t, "idle", "")

stop_processing_widget(t) ==
    /\ t.pc = "stop_processing_widget"
    /\ EmitStep(t, "processing", "stop_transcribe")

\* spawn_blocking: load the context if none is cached, transcribe, then format
\* and apply the replacements (pipeline.rs 143-175)
\*   "load_err"        whisper::load_context fails (only when nothing is cached)
\*   "transcribe_err"  whisper::transcribe_with_ctx fails
\*   "blank"           the formatted transcript is blank
\*   "text"            the formatted transcript is not blank
\* prompt: prompt_mode_enabled && !prompt_mode_api_key.trim().is_empty(); the
\* flags captured at the precondition check are whatever set_prompt_mode last
\* stored, and this is the first place that reads them (pipeline.rs 188).
TranscribeOutcomes == {"load_err", "transcribe_err", "blank", "text"}

stop_transcribe(t) ==
    /\ t.pc = "stop_transcribe"
    /\ \E outcome \in TranscribeOutcomes, prompt \in BOOLEAN :
         LET u == [t EXCEPT !.audio = <<>>] IN
         /\ outcome = "load_err" => whisper_ctx = None
         /\ whisper_ctx' = IF outcome = "load_err" THEN None ELSE Some("model")
         /\ IF outcome \in {"load_err", "transcribe_err"} THEN
                /\ tasks' = Finish(t, t, FALSE, "transcribe", "").tasks
                /\ ret' = Finish(t, t, FALSE, "transcribe", "").ret
            ELSE
                /\ tasks' = Replace(t,
                     IF outcome = "blank" THEN [u EXCEPT !.pc = "stop_blank_reset"]
                     ELSE [u EXCEPT !.text = "normalized",
                                    !.pc = IF prompt THEN "stop_structuring_widget"
                                           ELSE "stop_inject"])
                /\ ret' = NoRet
    /\ emitted' = "none"
    /\ UNCHANGED <<inner, recorder, model_ready, key_down, rs_in, rs_out>>

stop_blank_reset(t) ==
    /\ t.pc = "stop_blank_reset"
    /\ ResetStep(t, "stop_blank_widget")

stop_blank_widget(t) ==
    /\ t.pc = "stop_blank_widget"
    /\ EmitAndFinish(t, "idle", "")

stop_structuring_widget(t) ==
    /\ t.pc = "stop_structuring_widget"
    /\ EmitStep(t, "structuring", "stop_structure")

\* prompt::structure_prompt: Ok(non-blank), Ok(blank) or Err (pipeline.rs 195-216)
StructureOutcomes == {"structured", "blank", "err"}

\* variant in which an Err of the service is propagated with `?`
stop_structure_err_aborts(t, outcome) ==
    /\ t.pc = "stop_structure"
    /\ IF outcome = "err"
       THEN /\ tasks' = Finish(t, t, FALSE, "structure", "").tasks
            /\ ret' = Finish(t, t, FALSE, "structure", "").ret
       ELSE /\ tasks' = Replace(t, [t EXCEPT
                           !.text = IF outcome = "structured" THEN "structured" ELSE @,
                           !.structure = outcome,
                           !.pc = "stop_inject"])
            /\ ret' = NoRet
    /\ emitted' = "none"
    /\ UNCHANGED <<inner, recorder, whisper_ctx, model_ready,
                   key_down, rs_in, rs_out>>

\* the match on the service's answer (pipeline.rs 195-216)
stop_structure_with(t, outcome) ==
    /\ t.pc = "stop_structure"
    /\ tasks' = Replace(t, [t EXCEPT
                    !.text = IF outcome = "structured" THEN "structured" ELSE @,
                    !.structure = outcome,
                    !.pc = "stop_inject"])
    /\ ret' = NoRet
    /\ emitted' = "none"
    /\ UNCHANGED <<inner, recorder, whisper_ctx, model_ready,
                   key_down, rs_in, rs_out>>

stop_structure(t) == \E outcome \in StructureOutcomes : stop_structure_with(t, outcome)

\* hide the widget, sleep, injector::paste_text (pipeline.rs 222-234)
stop_inject(t) ==
    /\ t.pc = "stop_inject"
    /\ \E ok \in BOOLEAN :
         /\ tasks' = IF ok THEN Goto(t, "stop_final_reset")
                     ELSE Finish(t, t, FALSE, "inject", "").tasks
         /\ ret' = IF ok THEN NoRet ELSE Finish(t, t, FALSE, "inject", "").ret
    /\ emitted' = "none"
    /\ UNCHANGED <<inner, recorder, whisper_ctx, model_ready,
                   key_down, rs_in, rs_out>>

stop_final_reset(t) ==
    /\ t.pc = "stop_final_reset"
    /\ ResetStep(t, "stop_final_widget")

stop_final_widget(t) ==
    /\ t.pc = "stop_final_widget"
    /\ EmitAndFinish(t, "idle", t.text)

\* ------------------------------------------------------------------------
\* Commands (commands.rs) and the environment
\* ------------------------------------------------------------------------
Command(kind) ==
    /\ CanSpawn
    /\ tasks' = Spawn(NewTask(kind, "command"))
    /\ ret' = NoRet
    /\ emitted' = "none"
    /\ UNCHANGED <<inner, recorder, whisper_ctx, model_ready,
                   key_down, rs_in, rs_out>>

start_recording == Command("start")

stop_recording == Command("stop")

cancel_recording == Command("cancel")

set_recording_mode ==
    /\ inner.toggle_shortcut_held
    /\ inner' = [inner EXCEPT !.toggle_shortcut_held = FALSE]
    /\ ret' = NoRet
    /\ emitted' = "none"
    /\ UNCHANGED <<recorder, whisper_ctx, model_ready, tasks,
                   key_down, rs_in, rs_out>>

\* the startup pre-load of the whisper context (lib.rs 763-794)
PreloadModel ==
    /\ ~model_ready
    /\ \E loaded \in BOOLEAN :
         whisper_ctx' = IF loaded THEN Some("model") ELSE whisper_ctx
    /\ model_ready' = TRUE
    /\ ret' = NoRet
    /\ emitted' = "none"
    /\ UNCHANGED <<inner, recorder, tasks, key_down, rs_in, rs_out>>

\* the device callback thread, while the stream plays
CaptureChunk ==
    /\ recorder.stream
    /\ Len(recorder.samples) < MaxRuns
    /\ \E chunk \in DeviceChunks : recorder' = capture_chunk(recorder, chunk)
    /\ ret' = NoRet
    /\ emitted' = "none"
    /\ UNCHANGED <<inner, whisper_ctx, model_ready, tasks,
                   key_down, rs_in, rs_out>>

\* the monotonic clock: press_instant holds the time elapsed since the press
Tick ==
    /\ inner.press_instant # None
    /\ inner.press_instant[1] < MaxHeldMs
    /\ inner' = [inner EXCEPT
                   !.press_instant = Some(Min(@[1] + TickMs, MaxHeldMs))]
    /\ ret' = NoRet
    /\ emitted' = "none"
    /\ UNCHANGED <<recorder, whisper_ctx, model_ready, tasks,
                   key_down, rs_in, rs_out>>

TaskStep ==
    \E t \in TaskSet :
        \/ start_check(t)
        \/ start_widget(t)
        \/ start_capture(t)
        \/ hk_error_widget(t)
        \/ hk_error_reset(t)
        \/ cancel_check(t)
        \/ cancel_widget(t)
        \/ stop_check(t)
        \/ stop_empty_widget(t)
        \/ stop_empty_reset(t)
        \/ stop_short_reset(t)
        \/ stop_short_widget(t)
        \/ stop_processing_widget(t)
        \/ stop_transcribe(t)
        \/ stop_blank_reset(t)
        \/ stop_blank_widget(t)
        \/ stop_structuring_widget(t)
        \/ stop_structure(t)
        \/ stop_inject(t)
        \/ stop_final_reset(t)
        \/ stop_final_widget(t)

Init ==
    /\ inner = InitInner
    /\ recorder = InitRecorder
    /\ whisper_ctx = None
    /\ model_ready \in BOOLEAN
    /\ tasks = EmptyBag
    /\ emitted = "none"
    /\ key_down = FALSE
    /\ ret = NoRet
    /\ rs_in = NoInput
    /\ rs_out = "unset"

Next ==
    \/ PressKey
    \/ KeyRepeat
    \/ ReleaseKey
    \/ start_recording
    \/ stop_recording
    \/ cancel_recording
    \/ set_recording_mode
    \/ PreloadModel
    \/ CaptureChunk
    \/ Tick
    \/ TaskStep

Spec == Init /\ [][Next]_vars


\* ------------------------------------------------------------------------
\* The pure resolver on its own: every input, one application
\* ------------------------------------------------------------------------
\* held_ms ranges over None and 0..MaxResolveMs
MaxResolveMs == 302

ResolveInputs ==
    [pressed : BOOLEAN, is_idle : BOOLEAN, is_recording : BOOLEAN,
     toggle_shortcut_held : BOOLEAN, toggle_active : BOOLEAN,
     held_ms : {None} \cup {Some(h) : h \in 0..MaxResolveMs}]

Resolve ==
    /\ rs_out = "unset"
    /\ rs_out' = resolve_shortcut_action(rs_in.pressed, rs_in.is_idle,
                     rs_in.is_recording, rs_in.toggle_shortcut_held,
                     rs_in.toggle_active, rs_in.held_ms)
    /\ UNCHANGED <<rs_in, sessionVars>>

InitResolve ==
    /\ inner = InitInner
    /\ recorder = InitRecorder
    /\ whisper_ctx = None
    /\ model_ready = TRUE
    /\ tasks = EmptyBag
    /\ emitted = "none"
    /\ key_down = FALSE
    /\ ret = NoRet
    /\ rs_in \in ResolveInputs
    /\ rs_out = "unset"

SpecResolve == InitResolve /\ [][Resolve]_vars

\* ------------------------------------------------------------------------
\* The AudioRecorder on its own: start / stop calls, device chunks and the
\* monotonic clock.  rs_out is the object, rs_in the last call made on it.
\*   rec        the recorder
\*   now        the monotonic clock, in ms
\*   last_emit  the stream's last_emit Instant
\*   calls      the times at which the stream's level callback was invoked
\*   ok, out    the result of the last start / stop
\* ------------------------------------------------------------------------
\* number of chunks one stream may deliver
MaxChunks == 3

\* the clock stops here
MaxClockMs == 100

ClockStepsMs == {10, 40, 50}

\* chunks the device delivers to the recorder checked on its own
RecorderChunks ==
    { [n |-> 480, v |-> 0, tag |-> "live"],
      [n |-> 480, v |-> 1, tag |-> "live"] }

Callbacks == {"cb1", "cb2"}

InitRecorderObj ==
    [rec |-> InitRecorder, now |-> 0, last_emit |-> 0, calls |-> <<>>,
     ok |-> TRUE, out |-> <<>>]

RecStart ==
    \E outcome \in StartOutcomes, rate \in DeviceRates, cb \in Callbacks :
        LET r == AudioRecorder_start(rs_out.rec, outcome, rate, cb) IN
        /\ rs_in' = [op |-> "start", cb |-> cb, emitted |-> FALSE]
        /\ rs_out' = [rs_out EXCEPT
                        !.rec = r.rec,
                        !.ok = r.ok,
                        !.out = <<>>,
                        !.last_emit = IF rs_out.rec.stream THEN @ ELSE rs_out.now,
                        !.calls = IF rs_out.rec.stream THEN @ ELSE <<>>]
        /\ UNCHANGED sessionVars

RecStop ==
    LET r == AudioRecorder_stop(rs_out.rec) IN
    /\ rs_in' = [op |-> "stop", cb |-> "none", emitted |-> FALSE]
    /\ rs_out' = [rs_out EXCEPT !.rec = r.rec, !.ok = TRUE, !.out = r.out]
    /\ UNCHANGED sessionVars

RecChunk ==
    /\ rs_out.rec.stream
    /\ Len(rs_out.rec.samples) < MaxChunks
    /\ \E chunk \in RecorderChunks :
         LET l == level_throttle(rs_out.last_emit, rs_out.now) IN
         /\ rs_in' = [op |-> "chunk", cb |-> "none", emitted |-> l.emit]
         /\ rs_out' = [rs_out EXCEPT
                         !.rec = capture_chunk(rs_out.rec, chunk),
                         !.ok = TRUE,
                         !.out = <<>>,
                         !.last_emit = l.last_emit,
                         !.calls = IF l.emit THEN Append(@, rs_out.now) ELSE @]
    /\ UNCHANGED sessionVars

RecTick ==
    /\ \E dt \in ClockStepsMs :
         /\ rs_out.now + dt <= MaxClockMs
         /\ rs_out' = [rs_out EXCEPT !.now = @ + dt, !.ok = TRUE, !.out = <<>>]
    /\ rs_in' = [op |-> "tick", cb |-> "none", emitted |-> FALSE]
    /\ UNCHANGED sessionVars

InitRecorderSpec ==
    /\ inner = InitInner
    /\ recorder = InitRecorder
    /\ whisper_ctx = None
    /\ model_ready = TRUE
    /\ tasks = EmptyBag
    /\ emitted = "none"
    /\ key_down = FALSE
    /\ ret = NoRet
    /\ rs_in = [op |-> "new", cb |-> "none", emitted |-> FALSE]
    /\ rs_out = InitRecorderObj

NextRecorder == RecStart \/ RecStop \/ RecChunk \/ RecTick

SpecRecorder == InitRecorderSpec /\ [][NextRecorder]_vars

\* ------------------------------------------------------------------------
\* resample_linear on its own: every input, one application
\* ------------------------------------------------------------------------
\* the function has not been applied yet
NotApplied == [done |-> FALSE, out |-> <<>>]

\* longest run of equal samples in an input
MaxResampleRun == 7

\* number of runs in an input
MaxResampleRuns == 2

ResampleRuns == [n : 1..MaxResampleRun, v : {0, 1}, tag : {"live"}]

ResampleSeqs ==
    UNION { [1..k -> ResampleRuns] : k \in 0..MaxResampleRuns }

\* (in_rate, out_rate) with in_rate a multiple of out_rate
ResampleRates ==
    { <<k * r, r>> : k \in 1..3, r \in {8000, 16000} }

ResampleInputs ==
    { [input |-> i, in_rate |-> p[1], out_rate |-> p[2]] :
        i \in ResampleSeqs, p \in ResampleRates }

Resample ==
    /\ ~rs_out.done
    /\ rs_out' = [done |-> TRUE,
                  out |-> resample_linear(rs_in.input, rs_in.in_rate,
                                          rs_in.out_rate)]
    /\ UNCHANGED <<rs_in, sessionVars>>

InitResample ==
    /\ inner = InitInner
    /\ recorder = InitRecorder
    /\ whisper_ctx = None
    /\ model_ready = TRUE
    /\ tasks = EmptyBag
    /\ emitted = "none"
    /\ key_down = FALSE
    /\ ret = NoRet
    /\ rs_in \in ResampleInputs
    /\ rs_out = NotApplied

SpecResample == InitResample /\ [][Resample]_vars

\* ------------------------------------------------------------------------
\* trim_silence on its own: every input, one application
\* ------------------------------------------------------------------------
\* number of runs in an input
MaxTrimRuns == 3

TrimRuns == [n : {100, 480, 960, 8000, 9000}, v : {0, 1}, tag : {"live"}]

TrimInputs == UNION { [1..k -> TrimRuns] : k \in 0..MaxTrimRuns }

Trim ==
    /\ ~rs_out.done
    /\ rs_out' = [done |-> TRUE, out |-> trim_silence(rs_in)]
    /\ UNCHANGED <<rs_in, sessionVars>>

InitTrim ==
    /\ inner = InitInner
    /\ recorder = InitRecorder
    /\ whisper_ctx = None
    /\ model_ready = TRUE
    /\ tasks = EmptyBag
    /\ emitted = "none"
    /\ key_down = FALSE
    /\ ret = NoRet
    /\ rs_in \in TrimInputs
    /\ rs_out = NotApplied

SpecTrim == InitTrim /\ [][Trim]_vars

\* ------------------------------------------------------------------------
\* format_text and its passes on their own: every input, one application
\* ------------------------------------------------------------------------
\* tokens per input over the general alphabet
MaxFormatTokens == 3

\* tokens per input over the two-word alphabet
MaxRepeatTokens == 7

\* tokens per input over the alphabet with case, punctuation and a token
\* without core
MaxMixedTokens == 4

\* fillers, pause-gated fillers, stutters, a contraction, a restart marker
FormatTokens ==
    { <<"u", "m">>,
      <<"l", "i", "k", "e">>,
      <<"l", "i", "k", "e", ",">>,
      <<"y", "o", "u">>,
      <<"k", "n", "o", "w", ",">>,
      <<"i">>,
      <<"i", "'", "m">>,
      <<"i", ".", ".", ".">>,
      <<"m", "e", "a", "n", ",">>,
      <<"k", "n", "o", "w">>,
      <<"m", "e", "a", "n">>,
      <<"t", "h", "e">>,
      <<"d", "o", "n", "t">>,
      <<EM>>,
      <<"a", "c", "t", "u", "a", "l", "l", "y">> }

RepeatTokens == { <<"w", "e">>, <<"c", "a", "n">> }

MixedTokens == { <<"w", "e">>, <<"W", "e", ",">>, <<"c", "a", "n">>, <<".", ".", ".">> }

TokenSeqs(alphabet, n) == UNION { [1..k -> alphabet] : k \in 0..n }

FormatExamples ==
    { <<"u", "m", " ", "I", " ", "l", "i", "k", "e", " ", "i", "t", ",", " ", "l", "i", "k", "e", ",", " ", "a", " ", "l", "o", "t", ",", " ", "y", "o", "u", " ", "k", "n", "o", "w", ",">>,
      <<"t", "h", "e", " ", "t", "h", "e", " ", "t", "h", "e", " ", "t", "h", "i", "n", "g">>,
      <<"w", "e", " ", "c", "a", "n", " ", "w", "e", " ", "c", "a", "n", " ", "d", "o", " ", "t", "h", "i", "s">>,
      <<"I", " ", "w", "a", "n", "t", " ", "t", "o", EM, " ", "a", "c", "t", "u", "a", "l", "l", "y", " ", "l", "e", "t", " ", "m", "e", " ", "f", "i", "x", " ", "t", "h", "a", "t">>,
      <<"i", ".", ".", ".", " ", "i", ".", ".", ".", " ", "i", ".", ".", ".", " ", "i", "'", "m", " ", "a", "c", "t", "u", "a", "l", "l", "y", " ", "r", "e", "a", "d", "y">>,
      <<"e-acute", " ", "e-acute", "'", "t", "a", "i", "t">>,
      <<"i", " ", "c", "a", "n", "t", " ", "d", "o", " ", "t", "h", "i", "s">>,
      <<" ">>,
      <<",">> }

\* tokens per input over the stutter alphabet
MaxStutterTokens == 5

\* single-letter stutters, with an ellipsis, outside ASCII, and a contraction
StutterTokens == { <<"i">>, <<"i", ".", ".", ".">>, <<"i", "'", "m">>, <<"e-acute">> }

\* tokens per input over the 'uh huh' alphabet
MaxPairTokens == 4

\* the two halves of 'uh huh', with and without punctuation, and a word
PairTokens == { <<"u", "h">>, <<"h", "u", "h">>, <<"U", "h", ",">>, <<"h", "u", "h", ".">>, <<"o", "k">> }

\* tokens per input over the contraction alphabet
MaxContractionTokens == 3

\* words of the contraction table in several casings and with punctuation
ContractionTokens == { <<"i">>, <<"c", "a", "n", "t">>, <<"D", "o", "n", "t", ",">>, <<"w", "e", "r", "e">>, <<"W", "E", "R", "E", ".">>, <<"l", "e", "t", "s", "!">>, <<"d", "o", "n", "t", ";">>, <<"d", "o">> }

\* every word of the contraction table on its own, bare and with a comma
TableWords ==
    UNION { {contraction_fixes[k][1], contraction_fixes[k][1] \o <<",">>} :
              k \in 1..Len(contraction_fixes) }

\* words before a restart marker
MaxBeforeWords == 9

BeforeWords == <<"a", "b", "c", "d", "e", "f", "g", "h", "k", "m">>

\* restart markers as they stand between the two sides
MarkerGlues ==
    { <<" ", EM, " ">>,
      <<EM, " ">>,
      <<" ", EN, " ">>,
      <<" ", "-", "-", " ">>,
      <<" ", EM, " ", EM, " ">>,
      <<" ", EM, " ", "-", "-", " ">>,
      <<" ", EM, " ", "x", " ", "-", "-", " ">>,
      <<" ", "-", "-", " ", "x", " ", EN, " ">> }

AfterTexts ==
    { <<>>,
      <<"t", "h", "i", "n", "g">>,
      <<"a", "c", "t", "u", "a", "l", "l", "y", " ", "o", "k">>,
      <<"n", "o">>,
      <<"n", "o", " ", "w", "a", "y">>,
      <<"W", "a", "i", "t">>,
      <<"n", "o", "b", "o", "d", "y">> }

FalseStartInputs ==
    { join([k \in 1..n |-> <<BeforeWords[k]>>]) \o glue \o after :
         n \in 0..MaxBeforeWords, glue \in MarkerGlues, after \in AfterTexts }

FormatInputs ==
    { join(ts) : ts \in TokenSeqs(FormatTokens, MaxFormatTokens) }
      \cup { join(ts) : ts \in TokenSeqs(RepeatTokens, MaxRepeatTokens) }
      \cup { join(ts) : ts \in TokenSeqs(MixedTokens, MaxMixedTokens) }
      \cup { join(ts) : ts \in TokenSeqs(StutterTokens, MaxStutterTokens) }
      \cup { join(ts) : ts \in TokenSeqs(ContractionTokens, MaxContractionTokens) }
      \cup { join(ts) : ts \in TokenSeqs(PairTokens, MaxPairTokens) }
      \cup TableWords
      \cup FalseStartInputs
      \cup FormatExamples

\*   out        format_text(input)
\*   again      format_text(out)
\*   fillers    remove_fillers(tokenize(input))
\*   kept       remove_fillers of every prefix of tokenize(input): kept[k] is
\*              what has been emitted when the scan stands after token k
\*   collapsed  collapse_repeated_phrases(tokenize(input))
\*   restart    cleanup_false_start of the trimmed, whitespace-collapsed input
\*   stutter    remove_stutter_before_contraction(tokenize(input))
\*   cleaned    the text format_text takes from smart_cleanup, trimmed
Format ==
    /\ ~rs_out.done
    /\ rs_out' = [done |-> TRUE,
                  out |-> format_text(rs_in),
                  again |-> format_text(format_text(rs_in)),
                  fillers |-> remove_fillers(tokenize(rs_in)),
                  kept |-> [k \in 0..Len(tokenize(rs_in)) |->
                              remove_fillers(SubSeq(tokenize(rs_in), 1, k))],
                  collapsed |-> collapse_repeated_phrases(tokenize(rs_in)),
                  restart |-> cleanup_false_start(collapse_whitespace(trim(rs_in))),
                  stutter |-> remove_stutter_before_contraction(tokenize(rs_in)),
                  cleaned |-> trim(smart_cleanup(rs_in))]
    /\ UNCHANGED <<rs_in, sessionVars>>

InitFormat ==
    /\ inner = InitInner
    /\ recorder = InitRecorder
    /\ whisper_ctx = None
    /\ model_ready = TRUE
    /\ tasks = EmptyBag
    /\ emitted = "none"
    /\ key_down = FALSE
    /\ ret = NoRet
    /\ rs_in \in FormatInputs
    /\ rs_out = NotApplied

SpecFormat == InitFormat /\ [][Format]_vars

\* ------------------------------------------------------------------------
\* apply_replacements on its own: every text and rule list, one application
\* ------------------------------------------------------------------------
\* tokens per text
MaxReplaceTokens == 3

\* rules per list
MaxRules == 2

ReplaceTokens == { <<"a", "i">>, <<"A", "I", ",">>, <<"a", "p", "i", ".">>, <<"g", "o">>, <<"e-acute">> }

\* a rule whose result is a rule's word again, one with a result of two
\* words, one with an empty result, one with a word outside ASCII
ReplaceRules ==
    { [from |-> <<"a", "i">>, to |-> <<"A", ".", "I", ".">>],
      [from |-> <<"A", "I">>, to |-> <<"O", "p", "e", "n", " ", "A", "I">>],
      [from |-> <<"a", "p", "i">>, to |-> <<"a", "i">>],
      [from |-> <<"g", "o">>, to |-> <<>>],
      [from |-> <<"E-acute">>, to |-> <<"x">>] }

ReplaceInputs ==
    { [text |-> join(ts), replacements |-> rules] :
         ts \in TokenSeqs(ReplaceTokens, MaxReplaceTokens),
         rules \in TokenSeqs(ReplaceRules, MaxRules) }
      \cup { [text |-> <<"a", "i", " ", " ", "g", "o", " ">>, replacements |-> rules] :
                rules \in TokenSeqs(ReplaceRules, 1) }

Replacements ==
    /\ ~rs_out.done
    /\ rs_out' = [done |-> TRUE,
                  out |-> apply_replacements(rs_in.text, rs_in.replacements)]
    /\ UNCHANGED <<rs_in, sessionVars>>

InitReplacements ==
    /\ inner = InitInner
    /\ recorder = InitRecorder
    /\ whisper_ctx = None
    /\ model_ready = TRUE
    /\ tasks = EmptyBag
    /\ emitted = "none"
    /\ key_down = FALSE
    /\ ret = NoRet
    /\ rs_in \in ReplaceInputs
    /\ rs_out = NotApplied

SpecReplacements == InitReplacements /\ [][Replacements]_vars

\* ------------------------------------------------------------------------
\* config_combo_to_shortcut on its own: every combo, one application
\* ------------------------------------------------------------------------
\* tokens per combo
MaxComboTokens == 3

\* every alias, a token with whitespace and capitals, an unknown token, an
\* empty and a blank token
ComboTokens ==
    { <<"c", "t", "r", "l">>,
      <<"c", "o", "n", "t", "r", "o", "l">>,
      <<"s", "h", "i", "f", "t">>,
      <<"a", "l", "t">>,
      <<"o", "p", "t", "i", "o", "n">>,
      <<"c", "m", "d">>,
      <<"m", "e", "t", "a">>,
      <<"s", "u", "p", "e", "r">>,
      <<"s", "p", "a", "c", "e">>,
      <<" ", "C", "t", "r", "l", " ">>,
      <<"S", "H", "I", "F", "T">>,
      <<"b", "a", "n", "a", "n", "a">>,
      <<>>,
      <<" ">> }

ComboInputs ==
    { join_with(ts, "+") :
         ts \in UNION { [1..k -> ComboTokens] : k \in 1..MaxComboTokens } }

Combo ==
    /\ ~rs_out.done
    /\ rs_out' = [done |-> TRUE, out |-> config_combo_to_shortcut(rs_in)]
    /\ UNCHANGED <<rs_in, sessionVars>>

InitCombo ==
    /\ inner = InitInner
    /\ recorder = InitRecorder
    /\ whisper_ctx = None
    /\ model_ready = TRUE
    /\ tasks = EmptyBag
    /\ emitted = "none"
    /\ key_down = FALSE
    /\ ret = NoRet
    /\ rs_in \in ComboInputs
    /\ rs_out = NotApplied

SpecCombo == InitCombo /\ [][Combo]_vars

\* ------------------------------------------------------------------------
\* The cached WhisperContext: set_model (commands.rs 75-99), the startup
\* pre-load (lib.rs 763-794) and the transcription step of a stop pipeline
\* (pipeline.rs 98-116, 143-166).  whisper_ctx holds the name of the model
\* whose file the context was loaded from.  rs_out:
\*   name     inner.config.model.name
\*   preload  the pre-load task: pc "none" | "read" | "load", path
\*   stop     a stop pipeline: pc "none" | "captured", path = model_path_str
\*   set      a set_model call: pc "none" | "clear"
\*   calls    set_model calls and stop pipelines begun so far
\* ------------------------------------------------------------------------
ModelNames == {"base.en", "small.en"}

\* set_model calls plus stop pipelines in one run
MaxModelCalls == 4

NoTask == [pc |-> "none", path |-> None]

\* the task reads model_file_path(config) under the session lock
preload_read ==
    /\ rs_out.preload.pc = "read"
    /\ rs_out' = [rs_out EXCEPT !.preload = [pc |-> "load", path |-> Some(rs_out.name)]]
    /\ UNCHANGED <<rs_in, sessionVars>>

\* whisper::load_context(path), then the store into whisper_ctx and
\* model_ready = true
preload_load ==
    /\ rs_out.preload.pc = "load"
    /\ \E loaded \in BOOLEAN :
         whisper_ctx' = IF loaded THEN rs_out.preload.path ELSE whisper_ctx
    /\ model_ready' = TRUE
    /\ rs_out' = [rs_out EXCEPT !.preload = NoTask]
    /\ UNCHANGED <<rs_in, inner, recorder, tasks, emitted, key_down, ret>>

\* the first lock scope of stop_recording_inner: model_path_str is taken
\* from the config as it is now.  A recording exists only after a start,
\* which model_ready gates.
stop_capture_path ==
    /\ model_ready
    /\ rs_out.stop.pc = "none"
    /\ rs_out.calls < MaxModelCalls
    /\ rs_out' = [rs_out EXCEPT !.stop = [pc |-> "captured", path |-> Some(rs_out.name)],
                                !.calls = @ + 1]
    /\ UNCHANGED <<rs_in, sessionVars>>

\* the blocking task: load from model_path_str if nothing is cached, then
\* transcribe with whatever is cached
stop_load_and_transcribe ==
    /\ rs_out.stop.pc = "captured"
    /\ \E loaded \in BOOLEAN :
         whisper_ctx' = IF whisper_ctx = None /\ loaded THEN rs_out.stop.path
                        ELSE whisper_ctx
    /\ rs_out' = [rs_out EXCEPT !.stop = NoTask]
    /\ UNCHANGED <<rs_in, inner, recorder, model_ready, tasks, emitted, key_down, ret>>

\* set_model, first lock scope: the name is stored, then save_config; when
\* the save fails the command returns before the cache is cleared
set_model_config ==
    /\ rs_out.set = "none"
    /\ rs_out.calls < MaxModelCalls
    /\ \E name \in ModelNames, saved \in BOOLEAN :
         rs_out' = [rs_out EXCEPT !.name = name,
                                  !.set = IF saved THEN "clear" ELSE "none",
                                  !.calls = @ + 1]
    /\ UNCHANGED <<rs_in, sessionVars>>

\* set_model, the whisper_ctx lock: *ctx_lock = None
set_model_clear ==
    /\ rs_out.set = "clear"
    /\ whisper_ctx' = None
    /\ rs_out' = [rs_out EXCEPT !.set = "none"]
    /\ UNCHANGED <<rs_in, inner, recorder, model_ready, tasks, emitted, key_down, ret>>

InitModel ==
    /\ inner = InitInner
    /\ recorder = InitRecorder
    /\ whisper_ctx = None
    /\ model_ready \in BOOLEAN
    /\ tasks = EmptyBag
    /\ emitted = "none"
    /\ key_down = FALSE
    /\ ret = NoRet
    /\ rs_in = NoInput
    /\ \E name \in ModelNames :
         rs_out = [name |-> name,
                   preload |-> IF model_ready THEN NoTask
                               ELSE [pc |-> "read", path |-> None],
                   stop |-> NoTask, set |-> "none", calls |-> 0]

NextModel ==
    \/ preload_read
    \/ preload_load
    \/ stop_capture_path
    \/ stop_load_and_transcribe
    \/ set_model_config
    \/ set_model_clear

SpecModel == InitModel /\ [][NextModel]_vars

\* ------------------------------------------------------------------------
\* The locks: inner_state ("session", state.rs 100-109), the recorder's
\* sample buffer ("samples"), the level throttle clock ("clock") and
\* whisper_ctx ("whisper").  Each thread runs its sequence of lock and
\* unlock operations over and over.  rs_out:
\*   pc     per thread, the index of its next operation
\*   owner  per lock, the thread that holds it, or "free"
\* ------------------------------------------------------------------------
Locks == {"session", "samples", "clock", "whisper"}

Acq(l) == [op |-> "lock", lock |-> l]

Rel(l) == [op |-> "unlock", lock |-> l]

\* variant in which the level callback reads the session under the buffer lock
LockPrograms_callback_takes_session ==
    [callback |-> <<Acq("samples"), Acq("session"), Rel("session"), Rel("samples"),
                    Acq("clock"), Rel("clock")>>,
     start    |-> <<Acq("session"), Rel("session"),
                    Acq("session"), Acq("samples"), Rel("samples"), Rel("session")>>,
     stop     |-> <<Acq("session"), Acq("samples"), Rel("samples"), Rel("session"),
                    Acq("whisper"), Rel("whisper"),
                    Acq("session"), Rel("session")>>,
     gesture  |-> <<Acq("session"), Rel("session")>>,
     command  |-> <<Acq("session"), Rel("session"),
                    Acq("whisper"), Rel("whisper"),
                    Acq("session"), Rel("session")>>]

\*   callback  capture_chunk (audio.rs 242-258): buffer, then clock with
\*             on_level called under it
\*   start     start_recording_inner (pipeline.rs 20-31, 41-45) with
\*             AudioRecorder::start clearing the buffer (audio.rs 93-98)
\*   stop      stop_recording_inner: precondition and AudioRecorder::stop
\*             (pipeline.rs 82-116, audio.rs 175-179), the blocking
\*             transcription (146-149), the final reset (237-240)
\*   gesture   handle_shortcut_event (lib.rs 613-665)
\*   command   set_model (commands.rs 80-98)
LockPrograms ==
    [callback |-> <<Acq("samples"), Rel("samples"), Acq("clock"), Rel("clock")>>,
     start    |-> <<Acq("session"), Rel("session"),
                    Acq("session"), Acq("samples"), Rel("samples"), Rel("session")>>,
     stop     |-> <<Acq("session"), Acq("samples"), Rel("samples"), Rel("session"),
                    Acq("whisper"), Rel("whisper"),
                    Acq("session"), Rel("session")>>,
     gesture  |-> <<Acq("session"), Rel("session")>>,
     command  |-> <<Acq("session"), Rel("session"),
                    Acq("whisper"), Rel("whisper"),
                    Acq("session"), Rel("session")>>]

Threads == DOMAIN LockPrograms

NextOp(th) == LockPrograms[th][rs_out.pc[th]]

\* one operation of a thread: Mutex::lock blocks while another thread holds
\* the lock; dropping the guard frees it
LockStep(th) ==
    LET o == NextOp(th)
        next == IF rs_out.pc[th] = Len(LockPrograms[th]) THEN 1 ELSE rs_out.pc[th] + 1
    IN  /\ o.op = "lock" => rs_out.owner[o.lock] = "free"
        /\ rs_out' = [pc |-> [rs_out.pc EXCEPT ![th] = next],
                      owner |-> [rs_out.owner EXCEPT
                                   ![o.lock] = IF o.op = "lock" THEN th ELSE "free"]]
        /\ UNCHANGED <<rs_in, sessionVars>>

capture_callback == LockStep("callback")

start_task == LockStep("start")

stop_task == LockStep("stop")

gesture_handler == LockStep("gesture")

set_model_command == LockStep("command")

InitLocks ==
    /\ inner = InitInner
    /\ recorder = InitRecorder
    /\ whisper_ctx = None
    /\ model_ready = TRUE
    /\ tasks = EmptyBag
    /\ emitted = "none"
    /\ key_down = FALSE
    /\ ret = NoRet
    /\ rs_in = NoInput
    /\ rs_out = [pc |-> [th \in Threads |-> 1], owner |-> [l \in Locks |-> "free"]]

NextLocks ==
    \/ capture_callback
    \/ start_task
    \/ stop_task
    \/ gesture_handler
    \/ set_model_command

SpecLocks == InitLocks /\ [][NextLocks]_vars

\* ------------------------------------------------------------------------
\* Properties
\* ------------------------------------------------------------------------
\* a stop task that set status to Processing and has neither run its own
\* reset to Idle nor failed
PipelinePcs ==
    {"stop_empty_widget", "stop_empty_reset", "stop_short_reset",
     "stop_processing_widget", "stop_transcribe", "stop_blank_reset",
     "stop_structuring_widget", "stop_structure", "stop_inject",
     "stop_final_reset"}

InPipeline(t) == t.kind = "stop" /\ t.passed /\ t.pc \in PipelinePcs

\* this step is a start or stop task finding its status precondition true
PassesPrecondition ==
    \E t \in TaskSet :
        \/ t.pc = "start_check" /\ start_check(t) /\ model_ready
             /\ start_precondition(inner)
        \/ t.pc = "stop_check" /\ stop_check(t) /\ stop_precondition(inner)

\* C1 (as stated): in every reachable state toggle_active implies status =
\* Recording.
C1_Original == inner.toggle_active => inner.status = Recording

\* C1 (amended): in every reachable state toggle_active implies status is
\* Recording or Processing; it is never set while the session is Idle.
C1_Amended == inner.toggle_active => inner.status \in {Recording, Processing}

\* toggle mode is still flagged after a stop took the session to Processing
C1_Witness == inner.toggle_active /\ inner.status = Processing

\* C2: while a stop task is between setting Processing and its own reset, no
\* start or stop task passes its precondition check.
C2_Claim ==
    [][(\E s \in TaskSet : InPipeline(s)) => ~PassesPrecondition]_vars

\* C3: from the moment a stop task sets Processing until that task completes
\* or fails, status stays Processing.
C3_Claim == \A s \in TaskSet : InPipeline(s) => inner.status = Processing

\* C4: when a stop returns a transcription or injection failure, status is
\* Idle again and the toggle flags are cleared, whatever dispatched it.
C4_Claim ==
    (ret.kind = "stop" /\ ~ret.ok /\ ret.cause \in {"transcribe", "inject"})
        => /\ inner.status = Idle
           /\ ~inner.toggle_active
           /\ inner.press_instant = None

\* C5: when a start that found Idle returns a capture error, status is Idle
\* and no capture is active, whatever dispatched it.
C5_Claim ==
    (ret.kind = "start" /\ ~ret.ok /\ ret.cause = "capture")
        => inner.status = Idle /\ ~recorder.stream

\* a start dispatched by a press whose status transition is not committed yet
UncommittedStart(t) ==
    t.kind = "start" /\ t.origin = "hotkey" /\ t.pc = "start_check"

\* C6: once a press has been resolved to Start, every later gesture sees the
\* committed status: no release is evaluated against Idle and no second press
\* is resolved to Start while that start is still to commit.
C6_Claim ==
    [][(\E t \in TaskSet : UncommittedStart(t)) =>
          /\ ~(ReleaseKey /\ inner.status = Idle)
          /\ ~((PressKey \/ KeyRepeat)
                 /\ ShortcutDecision(TRUE, inner).action = "Start")]_vars

\* samples tagged as discarded by a cancel
HasCancelled(audio) == \E k \in 1..Len(audio) : audio[k].tag = "cancelled"

\* C7: a cancel that finds Recording leaves, in one step, no stream, status
\* Idle, toggle_active false and press_instant None, and the samples that
\* were in the buffer when it ran never reach a stop task's audio.
C7_Theorem ==
    /\ [](\A t \in TaskSet : ~HasCancelled(t.audio))
    /\ [][\A t \in TaskSet :
            (t.pc = "cancel_check" /\ cancel_check(t) /\ inner.status = Recording)
              => /\ inner'.status = Idle
                 /\ ~inner'.toggle_active
                 /\ inner'.press_instant = None
                 /\ ~recorder'.stream]_vars

\* a cancel found Recording with samples in the buffer and discarded them
C7_Witness ==
    /\ \E t \in TaskSet : t.kind = "cancel" /\ t.passed /\ t.pc = "cancel_widget"
    /\ HasCancelled(recorder.samples)
    /\ inner.status = Idle

\* C8: a cancel that finds status other than Recording changes neither the
\* session nor the recorder, and emits no "idle" event while status is
\* Processing.
C8_Claim ==
    [][\A t \in TaskSet :
         /\ (t.pc = "cancel_check" /\ cancel_check(t) /\ inner.status # Recording)
              => UNCHANGED <<inner, recorder>>
         /\ (t.pc = "cancel_widget" /\ ~t.passed /\ cancel_widget(t)
               /\ inner.status = Processing)
              => emitted' # "idle"]_vars

\* C9: a start that finds Recording or Processing returns Ok and leaves the
\* session and the recorder (stream and samples) unchanged.
C9_Theorem ==
    [][\A t \in TaskSet :
         (t.pc = "start_check" /\ start_check(t)
            /\ inner.status \in {Recording, Processing})
           => /\ UNCHANGED <<inner, recorder>>
              /\ ret'.kind = "start" /\ ret'.ok /\ ~ret'.passed]_vars

\* a start returned Ok without passing its check while a capture with
\* samples was running
C9_Witness ==
    /\ ret.kind = "start" /\ ret.ok /\ ~ret.passed
    /\ inner.status = Recording
    /\ recorder.stream /\ recorder.samples # <<>>

\* C10: on a release the resolver returns Stop when recording outside toggle
\* mode with held_ms >= 300 or unknown, ToggleActivated when held_ms < 300,
\* and None for every other combination.
C10_Theorem ==
    (rs_out # "unset" /\ ~rs_in.pressed) =>
        rs_out = IF rs_in.is_recording /\ ~rs_in.toggle_active
                 THEN IF rs_in.held_ms = None \/ rs_in.held_ms[1] >= 300
                      THEN "Stop" ELSE "ToggleActivated"
                 ELSE "None"

\* the resolver was applied to a release held for exactly 300 ms
C10_Witness ==
    /\ rs_out = "Stop" /\ ~rs_in.pressed
    /\ rs_in.held_ms = Some(300)
    /\ rs_in.is_idle /\ rs_in.toggle_shortcut_held

\* C11: on a press the resolver returns None if toggle_shortcut_held, else
\* Stop if toggle_active (even when is_idle), else Start if is_idle, else
\* None; so Start only when is_idle, and never ToggleActivated.
C11_Theorem ==
    (rs_out # "unset" /\ rs_in.pressed) =>
        /\ rs_out = IF rs_in.toggle_shortcut_held THEN "None"
                    ELSE IF rs_in.toggle_active THEN "Stop"
                    ELSE IF rs_in.is_idle THEN "Start"
                    ELSE "None"
        /\ (rs_out = "Start" => rs_in.is_idle)
        /\ rs_out # "ToggleActivated"

\* the resolver was applied to a press in toggle mode with is_idle true
C11_Witness ==
    /\ rs_out = "Stop" /\ rs_in.pressed
    /\ rs_in.toggle_active /\ rs_in.is_idle /\ ~rs_in.toggle_shortcut_held

\* C12: a start on a recorder whose stream is active returns Ok and leaves
\* the recorder as it was: same stream, same level callback, same samples.
C12_Theorem ==
    [][(rs_in'.op = "start" /\ rs_out.rec.stream)
          => rs_out'.rec = rs_out.rec /\ rs_out'.ok]_vars

\* a second start, with another callback, returned on an active stream that
\* had accumulated samples
C12_Witness ==
    /\ rs_in.op = "start" /\ rs_out.ok
    /\ rs_out.rec.stream /\ rs_out.rec.samples # <<>>
    /\ rs_out.rec.on_level # Some(rs_in.cb)

\* C14: within one capture session any two consecutive invocations of the
\* level callback are at least 50 ms apart, and every chunk, whether or not
\* it leads to an invocation, is appended to the sample buffer.
C14_Theorem ==
    /\ [](\A i \in 1..(Len(rs_out.calls) - 1) :
            rs_out.calls[i + 1] - rs_out.calls[i] >= 50)
    /\ [][rs_in'.op = "chunk" =>
            /\ Len(rs_out'.rec.samples) = Len(rs_out.rec.samples) + 1
            /\ SubSeq(rs_out'.rec.samples, 1, Len(rs_out.rec.samples))
                  = rs_out.rec.samples]_vars

\* a stream delivered three chunks and invoked the callback twice: one chunk
\* fell inside the 50 ms window and was appended without an invocation
C14_Witness ==
    /\ rs_in.op = "chunk" /\ ~rs_in.emitted
    /\ Len(rs_out.calls) = 2
    /\ Len(rs_out.rec.samples) = 3

\* samples captured before the current session's transition to Recording
HasStale(audio) == \E k \in 1..Len(audio) : audio[k].tag = "stale"

\* C13: the audio a stop hands to the pipeline holds only samples captured
\* after the session's own transition from Idle to Recording.
C13_Claim == \A t \in TaskSet : ~HasStale(t.audio)

\* C15: resample_linear returns its input when the rates are equal, the
\* empty sequence for empty input, and floor(n / 2) resp. floor(n / 3)
\* samples for a non-empty input of n samples resampled 2r -> r resp. 3r -> r.
C15_Theorem ==
    rs_out.done =>
        /\ rs_in.in_rate = rs_in.out_rate => rs_out.out = rs_in.input
        /\ rs_in.input = <<>> => rs_out.out = <<>>
        /\ (rs_in.input # <<>> /\ rs_in.in_rate = 2 * rs_in.out_rate)
              => SampleLen(rs_out.out) = SampleLen(rs_in.input) \div 2
        /\ (rs_in.input # <<>> /\ rs_in.in_rate = 3 * rs_in.out_rate)
              => SampleLen(rs_out.out) = SampleLen(rs_in.input) \div 3

\* an input whose length is no multiple of 3 was resampled 3r -> r
C15_Witness ==
    /\ rs_out.done
    /\ rs_in.in_rate = 48000 /\ rs_in.out_rate = 16000
    /\ SampleLen(rs_in.input) = 8
    /\ SampleLen(rs_out.out) = 2

\* the 480-sample windows of the input whose RMS is at least 0.01
LoudWindows(s) ==
    { w \in 0..((SampleLen(s) + 479) \div 480 - 1) :
        SumSqFrom(s, 1, w * 480, Min((w + 1) * 480, SampleLen(s))) * 10000
          >= Min((w + 1) * 480, SampleLen(s)) - w * 480 }

\* C16: trim_silence returns the empty sequence when every 480-sample window
\* is silent, and otherwise exactly input[first*480 .. min((last+1)*480 +
\* 8000, len)) for the first and last non-silent windows; a buffer with no
\* silent window keeps its length.
C16_Theorem ==
    rs_out.done =>
        LET n == SampleLen(rs_in)
            L == LoudWindows(rs_in)
        IN  /\ L = {} => rs_out.out = <<>>
            /\ L # {} =>
                  LET first == CHOOSE w \in L : \A x \in L : w <= x
                      last  == CHOOSE w \in L : \A x \in L : w >= x
                  IN  /\ rs_out.out =
                           Slice(rs_in, first * 480, Min((last + 1) * 480 + 8000, n))
                      /\ SampleLen(rs_out.out) =
                           Min((last + 1) * 480 + 8000, n) - first * 480
            /\ (n > 0 /\ L = 0..((n + 479) \div 480 - 1))
                  => SampleLen(rs_out.out) = n

\* silent / loud / silent: the loud window is kept with the full 8000-sample
\* padding, and trailing silence beyond it is cut
C16_Witness ==
    /\ rs_out.done
    /\ rs_in = << [n |-> 480, v |-> 0, tag |-> "live"],
                  [n |-> 480, v |-> 1, tag |-> "live"],
                  [n |-> 9000, v |-> 0, tag |-> "live"] >>
    /\ SampleLen(rs_out.out) = 8480

\* C17 (as stated): format returns the empty string only for empty input;
\* every non-empty input yields a non-empty result ending in . ! or ?
C17_Original ==
    rs_out.done =>
        /\ rs_in = <<>> => rs_out.out = <<>>
        /\ rs_in # <<>> =>
              rs_out.out # <<>> /\ rs_out.out[Len(rs_out.out)] \in {".", "!", "?"}

\* C17 (amended): format returns the empty string exactly when nothing is
\* left of the input after the cleanup passes (empty, blank, punctuation-only
\* or filler-only input); every other result ends in . ! or ?
C17_Amended ==
    rs_out.done =>
        /\ rs_in = <<>> => rs_out.out = <<>>
        /\ rs_out.out = <<>> <=> trim(smart_cleanup(rs_in)) = <<>>
        /\ rs_out.out # <<>> => rs_out.out[Len(rs_out.out)] \in {".", "!", "?"}

\* a filler-only input was formatted to the empty string
C17_Witness == rs_out.done /\ rs_in = <<"u", "m">> /\ rs_out.out = <<>>

\* C18: format is a fixed point on its own output.
C18_Claim == rs_out.done => rs_out.again = rs_out.out

\* the token before position i that the filler pass has emitted ends in
\* pause punctuation
PrevHasPause(kept, i) ==
    kept[i - 1] # <<>> /\ token_has_pause(kept[i - 1][Len(kept[i - 1])])

\* C19: a 'like' token is dropped exactly when the previously emitted token
\* or the token itself ends in pause punctuation and is kept otherwise; the
\* pairs 'you know' and 'i mean' are dropped as a unit exactly when the
\* previously emitted token or the pair's second token ends in pause
\* punctuation; 'um', 'uh', 'hmm' are always dropped; and
\* format("um I like it, like, a lot, you know,") = "I like it, a lot."
C19_Theorem ==
    rs_out.done =>
        LET toks == tokenize(rs_in)
            kept == rs_out.kept
            core(i) == token_core(toks[i])
        IN  /\ rs_out.fillers = kept[Len(toks)]
            /\ \A i \in 1..Len(toks) :
                  /\ core(i) = Words.like =>
                        kept[i] = IF PrevHasPause(kept, i) \/ token_has_pause(toks[i])
                                  THEN kept[i - 1]
                                  ELSE Append(kept[i - 1], toks[i])
                  /\ core(i) \in {Words.um, Words.uh, Words.hmm} => kept[i] = kept[i - 1]
                  /\ /\ i < Len(toks)
                     /\ \/ core(i) = Words.you /\ core(i + 1) = Words.know
                        \/ core(i) = Words.i /\ core(i + 1) = Words.mean
                     => kept[i + 1] =
                          IF PrevHasPause(kept, i) \/ token_has_pause(toks[i + 1])
                          THEN kept[i - 1]
                          ELSE kept[i - 1] \o <<toks[i], toks[i + 1]>>
            /\ rs_in = <<"u", "m", " ", "I", " ", "l", "i", "k", "e", " ", "i", "t", ",", " ", "l", "i", "k", "e", ",", " ", "a", " ", "l", "o", "t", ",", " ", "y", "o", "u", " ", "k", "n", "o", "w", ",">>
                  => rs_out.out = <<"I", " ", "l", "i", "k", "e", " ", "i", "t", ",", " ", "a", " ", "l", "o", "t", ".">>

\* the example sentence was formatted: the verb 'like' kept, the fillers gone
C19_Witness ==
    /\ rs_out.done
    /\ rs_in = <<"u", "m", " ", "I", " ", "l", "i", "k", "e", " ", "i", "t", ",", " ", "l", "i", "k", "e", ",", " ", "a", " ", "l", "o", "t", ",", " ", "y", "o", "u", " ", "k", "n", "o", "w", ",">>
    /\ rs_out.fillers = << <<"I">>, <<"l", "i", "k", "e">>, <<"i", "t", ",">>, <<"a">>, <<"l", "o", "t", ",">> >>

\* the longest phrase of 1 to 3 tokens, at most half of what remains, that
\* starts at 0-based position p and is immediately repeated; 0 if none
RefFoundLen(cores, p) ==
    LET cand == { l \in 1..Min(3, (Len(cores) - p) \div 2) :
                    \A k \in 1..l : /\ cores[p + k] # <<>>
                                     /\ cores[p + l + k] = cores[p + k] }
    IN  IF cand = {} THEN 0 ELSE CHOOSE l \in cand : \A m \in cand : m <= l

\* the number of consecutive copies of the phrase of length l at p
RefCopies(cores, p, l) ==
    CHOOSE r \in 1..Len(cores) :
        /\ p + r * l <= Len(cores)
        /\ \A j \in 1..(r - 1) : \A k \in 1..l : cores[p + j * l + k] = cores[p + k]
        /\ p + (r + 1) * l <= Len(cores)
             => \E k \in 1..l : cores[p + r * l + k] # cores[p + k]

\* what the left-to-right scan emits from position p on
RECURSIVE RefCollapse(_, _, _)
RefCollapse(toks, cores, p) ==
    IF p >= Len(toks) THEN <<>>
    ELSE LET l == RefFoundLen(cores, p)
         IN  IF l = 0
             THEN <<toks[p + 1]>> \o RefCollapse(toks, cores, p + 1)
             ELSE SubSeq(toks, p + 1, p + l)
                    \o RefCollapse(toks, cores, p + l * RefCopies(cores, p, l))

\* the repeated phrases the scan finds from position p on, each with its
\* length and the offset in the output where it is emitted
RECURSIVE RefFound(_, _, _)
RefFound(cores, p, o) ==
    IF p >= Len(cores) THEN {}
    ELSE LET l == RefFoundLen(cores, p)
         IN  IF l = 0 THEN RefFound(cores, p + 1, o + 1)
             ELSE {[at |-> o, len |-> l]}
                    \cup RefFound(cores, p + l * RefCopies(cores, p, l), o + l)

Cores(toks) == [k \in 1..Len(toks) |-> token_core(toks[k])]

\* the phrase emitted at offset f.at of out is followed by a copy of itself
FollowedByCopy(out, f) ==
    /\ f.at + 2 * f.len <= Len(out)
    /\ \A k \in 1..f.len : Cores(out)[f.at + f.len + k] = Cores(out)[f.at + k]

CollapseAsScanned ==
    LET toks == tokenize(rs_in)
    IN  /\ rs_out.collapsed = RefCollapse(toks, Cores(toks), 0)
        /\ rs_in = <<"t", "h", "e", " ", "t", "h", "e", " ", "t", "h", "e", " ", "t", "h", "i", "n", "g">>
              => rs_out.collapsed = << <<"t", "h", "e">>, <<"t", "h", "i", "n", "g">> >>
        /\ rs_in = <<"w", "e", " ", "c", "a", "n", " ", "w", "e", " ", "c", "a", "n", " ", "d", "o", " ", "t", "h", "i", "s">>
              => rs_out.collapsed = << <<"w", "e">>, <<"c", "a", "n">>, <<"d", "o">>, <<"t", "h", "i", "s">> >>

MarkerOccs(text) ==
    { o \in (1..Len(text)) \X {Markers[1], Markers[2], Markers[3]} :
         /\ o[1] + Len(o[2]) - 1 <= Len(text)
         /\ SubSeq(text, o[1], o[1] + Len(o[2]) - 1) = o[2] }

\* the text before and after an occurrence
BeforeOf(text, o) == trim(SubSeq(text, 1, o[1] - 1))

AfterOf(text, o) ==
    trim(trim_start_matches(SubSeq(text, o[1] + Len(o[2]), Len(text)), DashChars))

\* both sides are non-empty, and the text after begins with a restart
\* keyword or the text before has at most 8 words
Restarts(text, o) ==
    /\ BeforeOf(text, o) # <<>>
    /\ AfterOf(text, o) # <<>>
    /\ \/ \E pre \in { <<"a", "c", "t", "u", "a", "l", "l", "y">>, <<"l", "e", "t", " ", "m", "e">>, <<"s", "o", "r", "r", "y">>,
                        <<"i", " ", "m", "e", "a", "n">>, <<"w", "a", "i", "t">>, <<"n", "o", " ">> } :
              starts_with(to_lowercase(AfterOf(text, o)), pre)
       \/ Len(split_whitespace(BeforeOf(text, o))) <= 8

\* C21: false-start cleanup keeps only the text after a restart marker that
\* has non-empty text on both sides when that text begins with a restart
\* keyword or at most 8 words stand before the marker, and leaves the text
\* unchanged in every other case; format("I want to- actually let me fix
\* that") = "Actually let me fix that." (with an em dash).
C21_Theorem ==
    rs_out.done =>
        LET text == collapse_whitespace(trim(rs_in))
            occs == MarkerOccs(text)
        IN  /\ \/ rs_out.restart = text
               \/ \E o \in occs : Restarts(text, o) /\ rs_out.restart = AfterOf(text, o)
            /\ (\A o \in occs : ~Restarts(text, o)) => rs_out.restart = text
            /\ \A o \in occs :
                  occs = {o} => rs_out.restart = IF Restarts(text, o)
                                                  THEN AfterOf(text, o) ELSE text
            /\ rs_in = <<"I", " ", "w", "a", "n", "t", " ", "t", "o", EM, " ", "a", "c", "t", "u", "a", "l", "l", "y", " ", "l", "e", "t", " ", "m", "e", " ", "f", "i", "x", " ", "t", "h", "a", "t">>
                  => rs_out.out = <<"A", "c", "t", "u", "a", "l", "l", "y", " ", "l", "e", "t", " ", "m", "e", " ", "f", "i", "x", " ", "t", "h", "a", "t", ".">>

\* nine words stand before the only marker and the text after it begins
\* with a restart keyword: only the text after is kept
C21_Witness ==
    /\ rs_out.done
    /\ \E o \in MarkerOccs(rs_in) :
          /\ MarkerOccs(rs_in) = {o}
          /\ Len(split_whitespace(BeforeOf(rs_in, o))) = 9
          /\ rs_out.restart = AfterOf(rs_in, o)
          /\ rs_out.restart # rs_in

\* token i is a single character (apart from punctuation) and the next token
\* begins with that character and an apostrophe
StutterBefore(toks, i) ==
    /\ Len(token_core(toks[i])) = 1
    /\ i < Len(toks)
    /\ starts_with(token_core(toks[i + 1]), token_core(toks[i]) \o <<"'">>)

\* the stutter pass drops exactly the stutters
StutterDroppedExactly ==
    LET toks == tokenize(rs_in)
        kept == SelectSeq([i \in 1..Len(toks) |-> i],
                          LAMBDA i : ~StutterBefore(toks, i))
    IN  rs_out.stutter = [k \in 1..Len(kept) |-> toks[kept[k]]]

\* a run of one repeated single-letter stutter before its contraction leaves
\* only the contraction
StutterRunRemoved ==
    LET toks == tokenize(rs_in)
        n == Len(toks)
    IN  /\ n >= 2
        /\ \A i \in 1..(n - 1) : /\ token_core(toks[i]) = token_core(toks[1])
                                  /\ StutterBefore(toks, n - 1)
        => rs_out.out = format_text(toks[n])

\* C22: a token whose core is a single character is dropped exactly when the
\* next token's core starts with that character and an apostrophe; with
\* repeat collapse, any run of repeated single-letter stutters before the
\* contraction leaves only the contraction;
\* format("i... i... i... i'm actually ready") = "I'm actually ready."
C22_Claim ==
    rs_out.done =>
        /\ StutterDroppedExactly
        /\ StutterRunRemoved
        /\ rs_in = <<"i", ".", ".", ".", " ", "i", ".", ".", ".", " ", "i", ".", ".", ".", " ", "i", "'", "m", " ", "a", "c", "t", "u", "a", "l", "l", "y", " ", "r", "e", "a", "d", "y">>
              => rs_out.out = <<"I", "'", "m", " ", "a", "c", "t", "u", "a", "l", "l", "y", " ", "r", "e", "a", "d", "y", ".">>

\* token k of the output is form, possibly with the final period appended
IsForm(o, k, form) == o[k] = form \/ (k = Len(o) /\ o[k] = Append(form, "."))

\* C23: in format every whole-word, case-insensitive occurrence of a word of
\* the contraction table is replaced by its apostrophe form with the token's
\* trailing , . ! ? preserved, the standalone word 'i' becomes 'I', and the
\* word 'were' is never rewritten; format("i cant do this") = "I can't do
\* this."
C23_Theorem ==
    rs_out.done =>
        LET c == split_whitespace(rs_out.cleaned)
            o == split_whitespace(rs_out.out)
        IN  /\ Len(o) = Len(c)
            /\ \A k \in 1..Len(c) :
                  LET stripped == trim_end_matches(c[k], {",", ".", "!", "?"})
                      trailing == SubSeq(c[k], Len(stripped) + 1, Len(c[k]))
                      low == to_lowercase(stripped)
                  IN  /\ \A j \in 1..Len(contraction_fixes) :
                            LET from == contraction_fixes[j][1]
                                to == contraction_fixes[j][2]
                            IN  low = from /\ from # <<"w", "e", "r", "e">> =>
                                  \/ IsForm(o, k, to \o trailing)
                                  \/ IsForm(o, k, <<UpperOf[to[1]]>> \o Tail(to) \o trailing)
                      /\ low = <<"i">> => IsForm(o, k, <<"I">> \o trailing)
                      /\ low = <<"w", "e", "r", "e">> =>
                            /\ \A n \in 1..Len(o[k]) : o[k][n] # "'"
                            /\ \/ IsForm(o, k, c[k])
                               \/ IsForm(o, k, <<UpperOf[to_lowercase(c[k])[1]]>> \o Tail(c[k]))
            /\ rs_in = <<"i", " ", "c", "a", "n", "t", " ", "d", "o", " ", "t", "h", "i", "s">> => rs_out.out = <<"I", " ", "c", "a", "n", "'", "t", " ", "d", "o", " ", "t", "h", "i", "s", ".">>

\* a text with 'i', a contraction with a comma and 'were' was formatted
C23_Witness ==
    /\ rs_out.done
    /\ rs_in = <<"i", " ", "D", "o", "n", "t", ",", " ", "w", "e", "r", "e">>
    /\ rs_out.out = <<"I", " ", "d", "o", "n", "'", "t", ",", " ", "w", "e", "r", "e", ".">>

\* the rules that match a token, compared without its trailing , . ! ?
MatchingRules(word, rules) ==
    { j \in 1..Len(rules) :
         eq_ignore_ascii_case(trim_end_matches(word, {",", ".", "!", "?"}), rules[j].from) }

\* what is emitted for a token: the first matching rule's result with the
\* token's trailing punctuation, or the token itself
Replaced(word, rules) ==
    LET m == MatchingRules(word, rules)
        stripped == trim_end_matches(word, {",", ".", "!", "?"})
    IN  IF m = {} THEN word
        ELSE rules[CHOOSE j \in m : \A i \in m : j <= i].to
               \o SubSeq(word, Len(stripped) + 1, Len(word))

ReplacedTokenwise ==
    LET words == split_whitespace(rs_in.text)
        rules == rs_in.replacements
    IN  IF rules = <<>> THEN rs_out.out = rs_in.text
        ELSE rs_out.out = join([k \in 1..Len(words) |-> Replaced(words[k], rules)])

\* C24 (as stated): each token is replaced by the first rule that matches it
\* without its trailing , . ! ? (ASCII case-insensitively), with the exact
\* 'to' and the trailing punctuation, later rules and re-matching do not
\* apply, other tokens pass unchanged, and the number of tokens is preserved.
C24_Original ==
    rs_out.done =>
        /\ ReplacedTokenwise
        /\ Len(split_whitespace(rs_out.out)) = Len(split_whitespace(rs_in.text))

\* C24 (amended): each token is replaced by the first rule that matches it,
\* with the exact 'to' and the trailing punctuation, later rules and
\* re-matching do not apply, other tokens pass unchanged; the number of
\* tokens is preserved when the 'to' of every rule is one word, while a 'to'
\* of several words adds tokens and an empty 'to' can remove one.
C24_Amended ==
    rs_out.done =>
        /\ ReplacedTokenwise
        /\ (\A j \in 1..Len(rs_in.replacements) :
               Len(split_whitespace(rs_in.replacements[j].to)) = 1)
             => Len(split_whitespace(rs_out.out)) = Len(split_whitespace(rs_in.text))

\* a token matched two rules and the result of the first is the word of
\* another rule: the first rule's result stands
C24_Witness ==
    /\ rs_out.done
    /\ rs_in.text = <<"a", "p", "i", ".", " ", "g", "o">>
    /\ rs_in.replacements = << [from |-> <<"a", "p", "i">>, to |-> <<"a", "i">>],
                               [from |-> <<"a", "i">>, to |-> <<"A", ".", "I", ".">>] >>
    /\ rs_out.out = <<"a", "i", ".", " ", "g", "o">>

\* C25: a failure of the restructuring service never aborts the pipeline:
\* the stop injects and returns the restructured text only when the service
\* was called (enabled, non-blank key) and answered non-blank text, and the
\* normalized text in every other case (not called, error, blank answer),
\* and then resets status to Idle.
C25_Theorem ==
    /\ [](\A t \in TaskSet :
             /\ t.pc \in {"stop_structuring_widget", "stop_structure"}
                  => t.text = "normalized" /\ t.structure = "none"
             /\ t.pc \in {"stop_inject", "stop_final_reset", "stop_final_widget"}
                  => t.text = IF t.structure = "structured"
                              THEN "structured" ELSE "normalized")
    /\ [][\A t \in TaskSet :
            /\ \A o \in StructureOutcomes :
                 (t.pc = "stop_structure" /\ stop_structure_with(t, o))
                   => /\ ret' = NoRet
                      /\ \E u \in BagToSet(tasks') :
                            /\ u.pc = "stop_inject"
                            /\ u.structure = o
                            /\ tasks' = Replace(t, u)
            /\ (t.pc = "stop_final_reset" /\ stop_final_reset(t))
                   => inner'.status = Idle
            /\ (t.pc = "stop_final_widget" /\ stop_final_widget(t))
                   => ret'.ok /\ ret'.text = t.text]_vars

\* the service failed and the stop is about to inject the normalized text
C25_Witness ==
    \E t \in TaskSet :
        t.pc = "stop_inject" /\ t.structure = "err" /\ t.text = "normalized"

\* the tokens of a combo: the text between one '+' (or the start) and the
\* next '+' (or the end), trimmed and lowercased, in order
ComboCuts(combo) == {0, Len(combo) + 1} \cup { k \in 1..Len(combo) : combo[k] = "+" }

ComboToken(combo, n) ==
    LET cuts == ComboCuts(combo)
        from == CHOOSE a \in cuts : Cardinality({ b \in cuts : b < a }) = n - 1
        to == CHOOSE a \in cuts : Cardinality({ b \in cuts : b < a }) = n
    IN  to_lowercase(trim(SubSeq(combo, from + 1, to - 1)))

\* the alias table
KeyName(token) ==
    CASE token \in { <<"c", "t", "r", "l">>, <<"c", "o", "n", "t", "r", "o", "l">> } -> <<"C", "o", "n", "t", "r", "o", "l">>
      [] token = <<"s", "h", "i", "f", "t">> -> <<"S", "h", "i", "f", "t">>
      [] token \in { <<"a", "l", "t">>, <<"o", "p", "t", "i", "o", "n">> } -> <<"A", "l", "t">>
      [] token \in { <<"c", "m", "d">>, <<"m", "e", "t", "a">>, <<"s", "u", "p", "e", "r">> } -> <<"S", "u", "p", "e", "r">>
      [] token = <<"s", "p", "a", "c", "e">> -> <<"S", "p", "a", "c", "e">>
      [] OTHER -> <<>>

\* C26: the combo is split on '+', each token is trimmed, lowercased and
\* mapped through the alias table, and the names are joined with '+' in the
\* original order; if a token (an empty one included) is not in the table
\* the result is an error that names it, and no partial shortcut.
C26_Theorem ==
    rs_out.done =>
        LET n == Cardinality(ComboCuts(rs_in)) - 1
            unknown == { k \in 1..n : KeyName(ComboToken(rs_in, k)) = <<>> }
        IN  IF unknown = {}
            THEN /\ rs_out.out.ok
                 /\ rs_out.out.value =
                      join_with([k \in 1..n |-> KeyName(ComboToken(rs_in, k))], "+")
            ELSE /\ ~rs_out.out.ok
                 /\ \E k \in unknown : rs_out.out.value = ComboToken(rs_in, k)

\* a combo with whitespace and capitals was converted
C26_Witness ==
    /\ rs_out.done
    /\ rs_in = <<" ", "C", "t", "r", "l", " ", "+", "o", "p", "t", "i", "o", "n", "+", "S", "H", "I", "F", "T">>
    /\ rs_out.out = [ok |-> TRUE, value |-> <<"C", "o", "n", "t", "r", "o", "l", "+", "A", "l", "t", "+", "S", "h", "i", "f", "t">>]

\* this step is the handler taking one gesture
HandledGesture == PressKey \/ KeyRepeat \/ ReleaseKey

\* this step adds a control task of the given kind to the bag
Dispatches(kind) ==
    \E u \in BagToSet(tasks') :
        /\ u.kind = kind /\ u.origin = "hotkey"
        /\ tasks' = Spawn(u)

\* C27: the stale-toggle check comes before the gesture is evaluated: right
\* after any handled gesture toggle_active implies status = Recording, no
\* press handled while status is not Recording resolves to Stop, and a press
\* that finds status Idle with the key up resolves to Start.
C27_Theorem ==
    [][/\ HandledGesture => (inner'.toggle_active => inner'.status = Recording)
       /\ ((PressKey \/ KeyRepeat) /\ inner.status # Recording)
             => ~Dispatches("stop")
       /\ (PressKey /\ inner.status = Idle)
             => Dispatches("start") /\ inner'.press_instant = Some(0)]_vars

\* a stop command ended a toggle-mode recording, status is Idle again and the
\* next press has been resolved to Start
C27_Witness ==
    /\ \E t \in TaskSet :
          /\ t.kind = "stop" /\ t.origin = "command" /\ t.toggle
          /\ t.pc = "stop_final_widget"
    /\ \E u \in TaskSet : u.kind = "start" /\ u.origin = "hotkey" /\ u.pc = "start_check"
    /\ inner.status = Idle /\ key_down /\ inner.press_instant = Some(0)

\* a press was handled while a stop command held a toggle-mode recording in
\* Processing: the stale flag is gone and no stop was dispatched
C27_StaleCleaned ==
    /\ \E t \in TaskSet :
          /\ t.kind = "stop" /\ t.origin = "command" /\ t.toggle /\ InPipeline(t)
    /\ BagCardinality(tasks) = 1
    /\ inner.status = Processing /\ key_down /\ inner.toggle_shortcut_held
    /\ ~inner.toggle_active

\* C28: toggle_shortcut_held is true exactly while the hotkey is down, and
\* between a handled press and the next release every further press event
\* resolves to no action, whatever tasks and commands run in between.
C28_Claim ==
    /\ [](inner.toggle_shortcut_held <=> key_down)
    /\ [][KeyRepeat => tasks' = tasks]_vars

\* the part of C28 about key-repeat alone
C28_RepeatIgnored == [][KeyRepeat => tasks' = tasks]_vars

\* this step belongs to a stop request that found status other than Recording
RejectedStopStep(t) ==
    /\ t.kind = "stop"
    /\ \/ t.pc = "stop_check" /\ stop_check(t) /\ inner.status # Recording
       \/ t.pc = "stop_empty_widget" /\ ~t.passed /\ stop_empty_widget(t)
       \/ t.pc = "stop_empty_reset" /\ ~t.passed /\ stop_empty_reset(t)

\* C29: a stop request that finds status other than Recording returns empty
\* text and leaves status, toggle_active, press_instant and the capture
\* stream unchanged.
C29_Claim ==
    [][\A t \in TaskSet :
         RejectedStopStep(t) =>
            /\ inner'.status = inner.status
            /\ inner'.toggle_active = inner.toggle_active
            /\ inner'.press_instant = inner.press_instant
            /\ recorder'.stream = recorder.stream
            /\ ret'.kind = "stop" => ret'.ok /\ ret'.text = ""]_vars

\* the part of C29 that the code keeps: the request returns Ok with empty
\* text and never touches the capture stream
C29_EmptyText ==
    [][\A t \in TaskSet :
         RejectedStopStep(t) =>
            /\ recorder' = recorder
            /\ ret'.kind = "stop" => ret'.ok /\ ret'.text = ""]_vars

\* C30: one tap dispatches at most one Stop: right after a press has been
\* resolved to Stop, while the spawned stop task has not changed status, the
\* release of that tap resolves to no action.
C30_Claim ==
    [][((PressKey \/ KeyRepeat) /\ Dispatches("stop"))
          => ShortcutDecision(FALSE, inner').action = "None"]_vars

\* the weaker reading of C30: the release of that tap does not dispatch a
\* second Stop
C30_NoSecondStop ==
    [][((PressKey \/ KeyRepeat) /\ Dispatches("stop"))
          => ShortcutDecision(FALSE, inner').action # "Stop"]_vars

\* C31: in every state in which no start, stop or cancel task is in flight,
\* an active capture stream implies status = Recording.
C31_Claim ==
    tasks = EmptyBag => (recorder.stream => inner.status = Recording)

\* this step is a stop pipeline failing after it set Processing
PipelineFails ==
    \E t \in TaskSet :
        /\ t.kind = "stop" /\ t.passed
        /\ \/ t.pc = "stop_transcribe" /\ stop_transcribe(t)
           \/ t.pc = "stop_inject" /\ stop_inject(t)
        /\ \/ ret'.kind = "stop" /\ ~ret'.ok
           \/ \E u \in BagToSet(tasks') : u.pc = "hk_error_widget" /\ tasks' = Replace(t, u)

\* C32: on a pipeline failure the session status passes through Error
\* before it becomes Idle.
C32_Claim == [][PipelineFails => inner'.status = Error]_vars

\* what the code does instead: status is never Error
C32_NeverError == inner.status # Error

\* the session is at rest: Idle, toggle flags cleared, no capture
AtRest(in, rec) ==
    /\ in.status = Idle /\ ~in.toggle_active /\ in.press_instant = None
    /\ ~in.toggle_shortcut_held
    /\ ~rec.stream

\* C33: the failure-reset path applied in any reachable state yields status
\* Idle, toggle_active false, press_instant None and no active capture;
\* applied a second time it changes nothing; and that is what the error
\* branch of a hotkey task leaves behind.
C33_Theorem ==
    /\ [](LET once == failure_reset(inner, recorder)
              twice == failure_reset(once.inner, once.recorder)
          IN  AtRest(once.inner, once.recorder) /\ twice = once)
    /\ [][\A t \in TaskSet :
            (t.pc = "hk_error_reset" /\ hk_error_reset(t)) => AtRest(inner', recorder')]_vars

\* the error branch has just run after a failed transcription, with the key
\* still down
C33_Witness ==
    /\ ret.origin = "hotkey" /\ ~ret.ok /\ ret.cause = "transcribe"
    /\ key_down
    /\ AtRest(inner, recorder)

\* the resolver applied to the snapshot the handler holds under the lock,
\* toggle_active taken after the stale-toggle cleanup
ResolverOnSnapshot(pressed) ==
    resolve_shortcut_action(pressed, inner.status = Idle, inner.status = Recording,
                            inner.toggle_shortcut_held,
                            inner.toggle_active /\ inner.status = Recording,
                            inner.press_instant)

\* what a gesture step did, read off the step itself
StepAction ==
    IF Dispatches("start") THEN "Start"
    ELSE IF Dispatches("stop") THEN "Stop"
    ELSE IF inner'.toggle_active /\ ~inner.toggle_active THEN "ToggleActivated"
    ELSE "None"

\* C34: for every gesture and every session state the action the handler
\* chooses inline equals resolve_shortcut_action on the snapshot, and the
\* step that mutates the flags is the step that acts on that decision.
C34_Theorem ==
    /\ [](\A pressed \in BOOLEAN :
            ShortcutDecision(pressed, inner).action = ResolverOnSnapshot(pressed))
    /\ [][/\ (PressKey \/ KeyRepeat) => StepAction = ResolverOnSnapshot(TRUE)
          /\ ReleaseKey => StepAction = ResolverOnSnapshot(FALSE)]_vars

\* a release after exactly the threshold was resolved to Stop while the
\* recording was still on
C34_Witness ==
    /\ ~key_down /\ inner.status = Recording /\ ~inner.toggle_active
    /\ inner.press_instant = Some(HOLD_THRESHOLD_MS)
    /\ \E t \in TaskSet : t.kind = "stop" /\ t.origin = "hotkey" /\ t.pc = "stop_check"

\* C35: wherever a token with core 'uh' is immediately followed by a token
\* with core 'huh', the filler pass drops both.
C35_Claim ==
    rs_out.done =>
        LET toks == tokenize(rs_in)
            kept == rs_out.kept
        IN  \A i \in 1..(Len(toks) - 1) :
               (token_core(toks[i]) = Words.uh /\ token_core(toks[i + 1]) = Words.huh)
                  => kept[i + 1] = kept[i - 1]

\* what the code does with the pair: 'uh' goes, 'huh' stays
C35_HuhKept ==
    rs_out.done =>
        LET toks == tokenize(rs_in)
            kept == rs_out.kept
        IN  \A i \in 1..(Len(toks) - 1) :
               (token_core(toks[i]) = Words.uh /\ token_core(toks[i + 1]) = Words.huh)
                  => kept[i + 1] = Append(kept[i - 1], toks[i + 1])

\* the right-most occurrence of a restart marker of any kind
LastMarker(text) ==
    CHOOSE o \in MarkerOccs(text) : \A q \in MarkerOccs(text) : q[1] <= o[1]

\* C36: when the text holds restart markers, of whichever kinds, the split
\* is made at the right-most of them: if the two sides of that marker meet
\* the cleanup condition, the text after it is what is kept.
C36_Claim ==
    rs_out.done =>
        LET text == collapse_whitespace(trim(rs_in)) IN
        (MarkerOccs(text) # {} /\ Restarts(text, LastMarker(text)))
            => rs_out.restart = AfterOf(text, LastMarker(text))

\* what the code does: the right-most marker of the first kind, in the order
\* em-dash, en-dash, double hyphen, whose two sides meet the condition
C36_KindOrder ==
    rs_out.done =>
        LET text == collapse_whitespace(trim(rs_in))
            lastOf(k) == CHOOSE o \in MarkerOccs(text) :
                            /\ o[2] = Markers[k]
                            /\ \A q \in MarkerOccs(text) : q[2] = Markers[k] => q[1] <= o[1]
            has(k) == \E o \in MarkerOccs(text) : o[2] = Markers[k]
            ok(k) == has(k) /\ Restarts(text, lastOf(k))
        IN  rs_out.restart =
              IF ok(1) THEN AfterOf(text, lastOf(1))
              ELSE IF ok(2) THEN AfterOf(text, lastOf(2))
              ELSE IF ok(3) THEN AfterOf(text, lastOf(3))
              ELSE text

\* the steps of a stop that drops what it holds: empty audio, audio below
\* the minimum, blank transcript
DropPcs ==
    {"stop_empty_widget", "stop_empty_reset", "stop_short_reset",
     "stop_short_widget", "stop_blank_reset", "stop_blank_widget"}

DropStep(t) ==
    \/ t.pc = "stop_empty_widget" /\ stop_empty_widget(t)
    \/ t.pc = "stop_empty_reset" /\ stop_empty_reset(t)
    \/ t.pc = "stop_short_reset" /\ stop_short_reset(t)
    \/ t.pc = "stop_short_widget" /\ stop_short_widget(t)
    \/ t.pc = "stop_blank_reset" /\ stop_blank_reset(t)
    \/ t.pc = "stop_blank_widget" /\ stop_blank_widget(t)

\* C37: a stop whose resampled, trimmed capture has fewer than 16000
\* samples goes to the drop steps and not to transcription; a stop in the
\* drop steps (short or empty capture, blank transcript) stays in them
\* until it returns Ok with empty text, so it reaches neither
\* transcription, restructuring nor injection; and its reset leaves status
\* Idle with the toggle flags cleared.
C37_Theorem ==
    [][\A t \in TaskSet :
         /\ (/\ t.pc = "stop_check" /\ stop_check(t) /\ inner.status = Recording
             /\ SampleLen(AudioRecorder_stop(recorder).out) < 16000)
               => \E u \in BagToSet(tasks') :
                     tasks' = Replace(t, u) /\ u.pc \in {"stop_empty_widget", "stop_short_reset"}
         /\ DropStep(t)
               => \/ \E u \in BagToSet(tasks') :
                        tasks' = Replace(t, u) /\ u.pc \in DropPcs
                  \/ /\ tasks' = Remove(t)
                     /\ ret'.kind = "stop" /\ ret'.ok /\ ret'.text = ""
         /\ (DropStep(t) /\ t.pc \in {"stop_empty_reset", "stop_short_reset", "stop_blank_reset"})
               => /\ inner'.status = Idle
                  /\ ~inner'.toggle_active
                  /\ inner'.press_instant = None]_vars

\* a stop found a capture that is not empty but below the minimum, reset the
\* session and is about to return
C37_Witness ==
    /\ \E t \in TaskSet : t.kind = "stop" /\ t.passed /\ t.pc = "stop_short_widget"
    /\ BagCardinality(tasks) = 1
    /\ inner.status = Idle /\ ~inner.toggle_active /\ ~recorder.stream
    /\ recorder.samples # <<>>

\* no stop pipeline, pre-load or set_model call is in flight
ModelQuiet ==
    /\ rs_out.stop.pc = "none"
    /\ rs_out.preload.pc = "none"
    /\ rs_out.set = "none"

\* C38: whenever no pipeline or pre-load task is in flight, the cached
\* context is absent or was loaded from the file of the configured model.
C38_Claim ==
    ModelQuiet => (whisper_ctx = None \/ whisper_ctx = Some(rs_out.name))

\* the part of C38 about the tasks alone: a pipeline or pre-load that
\* finds the cache empty fills it from the file of the configured model
C38_LoadsConfigured ==
    [][((stop_load_and_transcribe \/ preload_load) /\ whisper_ctx = None)
         => (whisper_ctx' = None \/ whisper_ctx' = Some(rs_out'.name))]_vars

\* the locks a thread holds, and the lock it is blocked on
Held(th) == { l \in Locks : rs_out.owner[l] = th }

Blocked(th) == NextOp(th).op = "lock" /\ rs_out.owner[NextOp(th).lock] # "free"

\* C39: the capture callback never takes or waits for the session lock and
\* holds the buffer lock and the clock lock one at a time; a control task
\* holds the buffer lock only inside the session lock; and in no reachable
\* state is there a set of threads each blocked on a lock held by another
\* thread of the set.
C39_Theorem ==
    /\ rs_out.owner["session"] # "callback"
    /\ NextOp("callback").lock \in {"samples", "clock"}
    /\ Cardinality(Held("callback")) <= 1
    /\ \A th \in {"start", "stop"} : "samples" \in Held(th) => "session" \in Held(th)
    /\ \A waiting \in SUBSET Threads :
          waiting # {} =>
            \E th \in waiting :
               ~(Blocked(th) /\ rs_out.owner[NextOp(th).lock] \in waiting)

\* a chain of waits without a cycle: the gesture handler waits for the
\* session lock held by the stop task, which waits for the buffer lock held
\* by the callback
C39_Witness ==
    /\ Blocked("gesture") /\ rs_out.owner["session"] = "stop"
    /\ Blocked("stop") /\ NextOp("stop").lock = "samples"
    /\ rs_out.owner["samples"] = "callback"

====
